---- MODULE Spec2Model ----
(***************************************************************************)
(* Tenant / subscription / payment lifecycle of the Team SaaS platform.    *)
(*                                                                         *)
(* The relational store is modelled as three tables (sequences of rows,    *)
(* the row id being the index, as an auto-increment primary key).  Every   *)
(* HTTP handler is one action of Spec (requests served one at a time).     *)
(* ConcSpec serves the admin-panel payment endpoints step by step, one     *)
(* database query at a time, for two requests in flight.                   *)
(* The database runs in Django's default autocommit mode: the only         *)
(* transaction.atomic block of the repository is in complete_signup.       *)
(***************************************************************************)
EXTENDS Integers, Sequences, FiniteSets, TLC

\* ------------------------------------------------------------------ bounds
MaxTenants == 1
MaxSubscriptions == 1
MaxPayments == 1
MaxTime == 1
MaxNotes == 1
MaxSignupTenants == 3
MaxTeams == 3

MaxInvoices == 1

MaxInvoiceItems == 2

MaxConcSubscriptions == 2

MaxDomains == 2

MaxMemberTeams == 2

MaxInvitations == 2

MaxResets == 2

\* ------------------------------------------------------------ value spaces
\* A nullable column is the empty sequence (NULL) or a one-element sequence.
None == << >>
Some(x) == << x >>

\* Users.  root: role SUPER_ADMIN, is_staff; staff: is_staff only;
\* member: an authenticated account with no admin role and no tenant.
Users == {"root", "staff", "member"}

\* Accounts that belong to tenant 1: owner, the TENANT_ADMIN that
\* TenantCreateSerializer.create makes for it, and super1, a SUPER_ADMIN
\* whose tenant column is set.
TeamUsers == {"root", "member", "owner", "super1"}

\* User.tenant (NULL for the accounts that belong to no tenant).
user_tenant(u) == IF u \in {"owner", "super1", "dev"} THEN Some(1) ELSE None

is_super_admin(u) == u \in {"root", "super1"}

is_internal_admin(u) == u \in {"root", "staff"}

\* Free-text inputs: "" is the blank text.
NoteTexts == {"", "n"}

Names == {"acme"}

\* E-mail addresses: the accounts that exist, and one address without an
\* account.
ExistingEmails == {"ann", "bob"}

InviteEmails == ExistingEmails \cup {"new"}

\* Invitation tokens; "" is a request without a token, "x" a token no
\* invitation carries.
Tokens == {"t1", "t2"}

TokenInputs == Tokens \cup {"", "x"}

InvitationRoles == {"ADMIN", "MEMBER"}

\* Passwords: "p0" is the one every account starts with.
Passwords == {"p0", "p1", "p2"}

\* The life of a password-reset token (24 hours), in clock ticks.
ResetLifetime == 1

\* Plan catalogue rows (read-only).
Plans == << [billing_interval |-> "MONTHLY", trial_days |-> 14, max_teams |-> 2],
            [billing_interval |-> "YEARLY",  trial_days |-> 0,  max_teams |-> 5],
            [billing_interval |-> "QUARTERLY", trial_days |-> 7, max_teams |-> 3] >>

\* The plans on offer where the billing interval plays no part: the monthly
\* and the yearly one.
PlanIds == {p \in DOMAIN Plans : Plans[p].billing_interval # "QUARTERLY"}

VARIABLES tenants, subscriptions, payments, teams, now, last, proc, invoices, invoice_items, team_members, deleted_teams, tproc, sproc, domains, request, invitations, accounts, password_resets, passwords, rproc

vars == << tenants, subscriptions, payments, teams, now, last, proc, invoices, invoice_items, team_members, deleted_teams, tproc, sproc, domains, request, invitations, accounts, password_resets, passwords, rproc >>

\* The invoice tables.
invoicing == << invoices, invoice_items >>

\* The TeamMember table, the primary keys of the teams that were deleted, and
\* the team requests in flight.
teamwork == << team_members, deleted_teams, tproc >>

\* The Domain table and the request TenantMiddleware resolved last.
routing == << domains, request >>

\* The TenantInvitation table and the tenant and role columns of the
\* accounts that invitations are sent to.
inviting == << invitations, accounts >>

\* The PasswordReset table, the password of every account and the
\* reset_password requests in flight.
resetting == << password_resets, passwords, rproc >>

\* ------------------------------------------------------------ model rows
\* Tenant(...) with the column defaults of the model.
NewTenant(slug) ==
    [slug |-> slug, status |-> "PENDING", is_approved |-> FALSE,
     approved_at |-> None, approved_by |-> None, subscription |-> None,
     max_teams |-> 5, current_teams_count |-> 0, notes |-> << >>]

\* Payment(...) with the column defaults of the model.
NewPayment(sid, tid) ==
    [subscription |-> sid, tenant |-> tid, status |-> "PENDING",
     verification_status |-> "PENDING", verified_by |-> None,
     verified_at |-> None, paid_at |-> None, verification_notes |-> None]

\* ------------------------------------------------------------ model methods
\* Tenant.approve, up to the save().
Tenant_approve_bad(t, u, at) ==
    [t EXCEPT !.is_approved = TRUE, !.approved_at = Some(at), !.approved_by = Some(u)]

Tenant_approve(t, u, at) ==
    [t EXCEPT !.is_approved = TRUE, !.status = "ACTIVE",
              !.approved_at = Some(at), !.approved_by = Some(u)]

\* Tenant.suspend, up to the save(): the reason is appended to the notes.
Tenant_suspend(t, reason) ==
    [t EXCEPT !.status = "SUSPENDED",
              !.notes = IF reason # "" THEN Append(t.notes, <<"Suspended", reason>>)
                        ELSE t.notes]

\* Payment.approve_verification, up to the save().
approve_verification(p, u, notes, at) ==
    [p EXCEPT !.verification_status = "APPROVED", !.status = "COMPLETED",
              !.verified_by = Some(u), !.verified_at = Some(at),
              !.paid_at = Some(at),
              !.verification_notes = IF notes # "" THEN Some(notes)
                                     ELSE p.verification_notes]

\* Payment.reject_verification, up to the save().
reject_verification(p, u, notes, at) ==
    [p EXCEPT !.verification_status = "REJECTED", !.status = "FAILED",
              !.verified_by = Some(u), !.verified_at = Some(at),
              !.verification_notes = IF notes # "" THEN Some(notes)
                                     ELSE p.verification_notes]

\* Tenant.check_limits with a strict comparison.
check_limits_strict(t) == [teams |-> t.current_teams_count > t.max_teams]

\* Tenant.check_limits: the teams flag.
check_limits(t) == [teams |-> t.current_teams_count >= t.max_teams]

\* Subscription.cancel, up to the save().
Subscription_cancel(s, immediately, at) ==
    IF immediately
    THEN [s EXCEPT !.cancelled_at = Some(at), !.status = "CANCELLED"]
    ELSE [s EXCEPT !.cancelled_at = Some(at), !.cancel_at_period_end = TRUE]

\* Length in days of a billing interval.
PeriodDays(interval) ==
    IF interval = "MONTHLY" THEN 30
    ELSE IF interval = "QUARTERLY" THEN 90
    ELSE 365

\* ------------------------------------------------------------ responses
\* The last request served (handler, primary key, `action` of a payment
\* verification) and the answer it got (HTTP status, error).
Response(op, id, action, code, err) ==
    [op |-> op, id |-> id, action |-> action, code |-> code, err |-> err]

\* A request in flight: the handler, its arguments, the position in the
\* handler (pc), the model instances it has loaded (each a private copy of
\* the row as it was read) and, once done, the answer.
Idle ==
    [pc |-> "idle", op |-> "none", u |-> "none", pid |-> 0, notes |-> "",
     payment |-> None, tenant |-> None, subscription |-> None,
     code |-> 0, err |-> "none"]

\* A team request in flight: the handler, the caller, the position in the
\* handler, the tenant instance it loaded (a private copy of the row), the
\* slug it chose and the team it works on.
TeamIdle ==
    [pc |-> "idle", op |-> "none", u |-> "none", name |-> "none",
     tid |-> 0, tenant |-> << >>, slug |-> << >>, team |-> 0]

TeamWorkers == {1, 2}

\* A subscription-create request in flight: the position in the handler, the
\* tenant instance it loaded, the plan, and the subscription it inserted.
SubscriptionIdle ==
    [pc |-> "idle", tid |-> 0, plan |-> 0, tenant |-> << >>, sid |-> 0]

SubscriptionWorkers == {1, 2}

Workers == {1, 2}

\* A reset_password request in flight: the position in the handler, the
\* PasswordReset instance it loaded (id and row) and the new password.
ResetIdle ==
    [pc |-> "idle", id |-> 0, reset |-> << >>, new_password |-> ""]

ResetWorkers == {1, 2}

Init ==
    /\ tenants = << >>
    /\ subscriptions = << >>
    /\ payments = << >>
    /\ teams = << >>
    /\ invoices = << >>
    /\ invoice_items = << >>
    /\ team_members = {}
    /\ deleted_teams = {}
    /\ tproc = [w \in TeamWorkers |-> TeamIdle]
    /\ sproc = [w \in SubscriptionWorkers |-> SubscriptionIdle]
    /\ domains = {}
    /\ request = [path |-> << >>, host |-> [sub |-> <<"", 0>>, base |-> ""],
                  tenant |-> None]
    /\ invitations = << >>
    /\ password_resets = << >>
    /\ passwords = [e \in ExistingEmails |-> "p0"]
    /\ rproc = [w \in ResetWorkers |-> ResetIdle]
    /\ accounts = [e \in ExistingEmails |-> [tenant |-> None, role |-> "MEMBER"]]
    /\ now = 0
    /\ last = [op |-> "none", id |-> 0, action |-> "none", code |-> 0, err |-> "none"]
    /\ proc = [w \in Workers |-> Idle]

\* The clock advances between requests.
Tick ==
    /\ now < MaxTime
    /\ now' = now + 1
    /\ UNCHANGED << tenants, subscriptions, payments, teams, last, proc, invoicing, teamwork, sproc, routing, inviting, resetting >>

\* ------------------------------------------------------ creation handlers
\* TenantCreateSerializer.create: the first free slug among base, base-1, ...
FreeSlug(name) ==
    LET taken(k) == \E i \in DOMAIN tenants : tenants[i].slug = <<name, k>>
    IN  <<name, CHOOSE k \in 0..Len(tenants) :
                    /\ ~taken(k)
                    /\ \A j \in 0..(k - 1) : taken(j)>>

\* A host name is its first label (written as a slug) and the labels after
\* it (base, empty when the name has one label only); the first label of a
\* tenant's default domain is its slug.
DefaultDomain(slug) == [sub |-> slug, base |-> "yourdomain.com"]

\* Domain.domain is unique.
DomainTaken(host) == \E d \in domains : d.domain = host

\* TenantViewSet.create (POST /tenants, open to anyone): the serializer
\* inserts the tenant, then the admin user, the domain and the settings, each
\* committed on its own; then log_activity.  `fault` names the insert that
\* raises ("user": the admin's email is already registered; "log": the
\* ActivityLog insert); the exception leaves the view and is answered with
\* 500.  No subscription and no payment is created.
TenantViewSet_create(name) ==
    /\ \E fault \in {"none", "user", "log"} :
          /\ tenants' = Append(tenants, NewTenant(FreeSlug(name)))
          /\ domains' = IF fault = "user" \/ DomainTaken(DefaultDomain(FreeSlug(name)))
                        THEN domains
                        ELSE domains \cup {[tenant |-> Len(tenants) + 1,
                                            domain |-> DefaultDomain(FreeSlug(name)),
                                            is_verified |-> TRUE]}
          /\ last' = IF fault = "user"
                     THEN Response("TenantViewSet_create", Len(tenants) + 1, "none",
                                   500, "InternalError")
                     ELSE IF DomainTaken(DefaultDomain(FreeSlug(name)))
                     THEN Response("TenantViewSet_create", Len(tenants) + 1, "none",
                                   500, "IntegrityError")
                     ELSE IF fault = "log"
                     THEN Response("TenantViewSet_create", Len(tenants) + 1, "none",
                                   500, "LogFailed")
                     ELSE Response("TenantViewSet_create", Len(tenants) + 1, "none",
                                   201, "none")
    /\ UNCHANGED << subscriptions, payments, teams, now, proc, invoicing, teamwork, sproc,
                    request, inviting, resetting >>

\* complete_signup: the duplicate-slug check, then the transaction.atomic
\* block, which raises at User.objects.create_user(username=...) because the
\* User model has no username field; the block rolls back and the handler
\* answers 500.
complete_signup(domain) ==
    /\ IF \E i \in DOMAIN tenants : tenants[i].slug = <<domain, 0>>
       THEN last' = Response("complete_signup", 0, "none", 400, "DomainTaken")
       ELSE last' = Response("complete_signup", 0, "none", 500, "TypeError")
    /\ UNCHANGED << tenants, subscriptions, payments, teams, now, proc, invoicing, teamwork, sproc, routing, inviting, resetting >>

\* SubscriptionViewSet.create (any authenticated user).
SubscriptionViewSet_create(u, tid, plan) ==
    /\ Len(subscriptions) < MaxSubscriptions
    /\ IF tid \notin DOMAIN tenants
       THEN /\ last' = Response("SubscriptionViewSet_create", 0, "none", 404, "NotFound")
            /\ UNCHANGED << tenants, subscriptions >>
       ELSE LET sid == Len(subscriptions) + 1
                s == [tenant |-> tid, plan |-> plan,
                      status |-> IF Plans[plan].trial_days > 0 THEN "TRIAL" ELSE "ACTIVE",
                      current_period_start |-> now,
                      current_period_end |-> now + PeriodDays(Plans[plan].billing_interval),
                      cancel_at_period_end |-> FALSE,
                      cancelled_at |-> None]
            IN  /\ subscriptions' = Append(subscriptions, s)
                /\ tenants' = [tenants EXCEPT ![tid].subscription = Some(sid),
                                              ![tid].max_teams = Plans[plan].max_teams]
                /\ last' = Response("SubscriptionViewSet_create", sid, "none", 201, "none")
    /\ UNCHANGED << payments, teams, now, proc, invoicing, teamwork, sproc, routing, inviting, resetting >>

\* The rows SubscriptionViewSet.get_queryset lets the user see.
SubscriptionQueryset(u) ==
    IF is_super_admin(u) THEN DOMAIN subscriptions ELSE {}

\* SubscriptionViewSet.cancel.
SubscriptionViewSet_cancel(u, sid, immediately) ==
    /\ IF sid \notin SubscriptionQueryset(u)
       THEN /\ last' = Response("SubscriptionViewSet_cancel", sid, "none", 404, "NotFound")
            /\ UNCHANGED subscriptions
       ELSE /\ subscriptions' = [subscriptions EXCEPT
                                   ![sid] = Subscription_cancel(@, immediately, now)]
            /\ last' = Response("SubscriptionViewSet_cancel", sid, "none", 200, "none")
    /\ UNCHANGED << tenants, payments, teams, now, proc, invoicing, teamwork, sproc, routing, inviting, resetting >>

\* SubscriptionViewSet.renew with the flag of a pending cancellation cleared.
SubscriptionViewSet_renew_clearing(u, sid) ==
    /\ IF sid \notin SubscriptionQueryset(u)
       THEN /\ last' = Response("SubscriptionViewSet_renew", sid, "none", 404, "NotFound")
            /\ UNCHANGED subscriptions
       ELSE /\ subscriptions' = [subscriptions EXCEPT
                                   ![sid].current_period_start = now,
                                   ![sid].current_period_end =
                                      now + PeriodDays(Plans[subscriptions[sid].plan].billing_interval),
                                   ![sid].status = "ACTIVE",
                                   ![sid].cancel_at_period_end = FALSE]
            /\ \E fault \in {"none", "log"} :
                  last' = IF fault = "log"
                          THEN Response("SubscriptionViewSet_renew", sid, "none",
                                        500, "LogFailed")
                          ELSE Response("SubscriptionViewSet_renew", sid, "none",
                                        200, "none")
    /\ UNCHANGED << tenants, payments, teams, now, proc, invoicing, teamwork, sproc, routing, inviting, resetting >>

\* SubscriptionViewSet.renew: a new period from now, status ACTIVE, saved;
\* then log_activity.
SubscriptionViewSet_renew(u, sid) ==
    /\ IF sid \notin SubscriptionQueryset(u)
       THEN /\ last' = Response("SubscriptionViewSet_renew", sid, "none", 404, "NotFound")
            /\ UNCHANGED subscriptions
       ELSE /\ subscriptions' = [subscriptions EXCEPT
                                   ![sid].current_period_start = now,
                                   ![sid].current_period_end =
                                      now + PeriodDays(Plans[subscriptions[sid].plan].billing_interval),
                                   ![sid].status = "ACTIVE"]
            /\ \E fault \in {"none", "log"} :
                  last' = IF fault = "log"
                          THEN Response("SubscriptionViewSet_renew", sid, "none",
                                        500, "LogFailed")
                          ELSE Response("SubscriptionViewSet_renew", sid, "none",
                                        200, "none")
    /\ UNCHANGED << tenants, payments, teams, now, proc, invoicing, teamwork, sproc, routing, inviting, resetting >>

\* PaymentViewSet.create (any authenticated user; the serializer checks that
\* the subscription and the tenant exist).
PaymentViewSet_create(u, sid, tid) ==
    /\ Len(payments) < MaxPayments
    /\ IF sid \notin DOMAIN subscriptions \/ tid \notin DOMAIN tenants
       THEN /\ last' = Response("PaymentViewSet_create", 0, "none", 400, "ValidationError")
            /\ UNCHANGED payments
       ELSE /\ payments' = Append(payments, NewPayment(sid, tid))
            /\ last' = Response("PaymentViewSet_create", Len(payments) + 1, "none", 201, "none")
    /\ UNCHANGED << tenants, subscriptions, teams, now, proc, invoicing, teamwork, sproc, routing, inviting, resetting >>

\* ------------------------------------------------ admin-panel payment views
\* approve_payment: the guard on verification_status, then the three saves
\* (payment, tenant when still PENDING, subscription when not ACTIVE), each
\* committed on its own; `fault` names the save that raises (none of them,
\* most of the time), which the handler's `except Exception` turns into a
\* 500 answer.
approve_payment(u, pid, notes) ==
    /\ IF ~is_internal_admin(u)
       THEN /\ last' = Response("approve_payment", pid, "approve", 302, "LoginRequired")
            /\ UNCHANGED << tenants, subscriptions, payments >>
       ELSE IF pid \notin DOMAIN payments
       THEN /\ last' = Response("approve_payment", pid, "approve", 404, "NotFound")
            /\ UNCHANGED << tenants, subscriptions, payments >>
       ELSE IF payments[pid].verification_status # "PENDING"
       THEN /\ last' = Response("approve_payment", pid, "approve", 400, "NotPending")
            /\ UNCHANGED << tenants, subscriptions, payments >>
       ELSE \E fault \in {"none", "payment", "tenant", "subscription"} :
            IF fault = "payment"
            THEN /\ last' = Response("approve_payment", pid, "approve", 500, "InternalError")
                 /\ UNCHANGED << tenants, subscriptions, payments >>
            ELSE
            LET p == payments[pid]
                tid == p.tenant
                sid == p.subscription
                tenantSave == tenants[tid].status = "PENDING"
                subSave == subscriptions[sid].status # "ACTIVE"
            IN  /\ payments' = [payments EXCEPT ![pid] = approve_verification(@, u, notes, now)]
                /\ IF tenantSave /\ fault = "tenant"
                   THEN /\ last' = Response("approve_payment", pid, "approve", 500, "InternalError")
                        /\ UNCHANGED << tenants, subscriptions >>
                   ELSE /\ tenants' = IF tenantSave
                                      THEN [tenants EXCEPT ![tid].status = "ACTIVE",
                                                           ![tid].is_approved = TRUE,
                                                           ![tid].approved_at = Some(now),
                                                           ![tid].approved_by = Some(u)]
                                      ELSE tenants
                        /\ IF subSave /\ fault = "subscription"
                           THEN /\ last' = Response("approve_payment", pid, "approve", 500, "InternalError")
                                /\ UNCHANGED subscriptions
                           ELSE /\ subscriptions' = IF subSave
                                                    THEN [subscriptions EXCEPT ![sid].status = "ACTIVE"]
                                                    ELSE subscriptions
                                /\ last' = Response("approve_payment", pid, "approve", 200, "none")
    /\ UNCHANGED << teams, now, proc, invoicing, teamwork, sproc, routing, inviting, resetting >>

\* reject_payment with a rejection that cascades the way an approval does:
\* the payment's subscription is cancelled along with the payment.
reject_payment_cascading(u, pid, notes) ==
    /\ IF ~is_internal_admin(u)
       THEN /\ last' = Response("reject_payment", pid, "reject", 302, "LoginRequired")
            /\ UNCHANGED << payments, subscriptions >>
       ELSE IF pid \notin DOMAIN payments
       THEN /\ last' = Response("reject_payment", pid, "reject", 404, "NotFound")
            /\ UNCHANGED << payments, subscriptions >>
       ELSE IF payments[pid].verification_status # "PENDING"
       THEN /\ last' = Response("reject_payment", pid, "reject", 400, "NotPending")
            /\ UNCHANGED << payments, subscriptions >>
       ELSE IF notes = ""
       THEN /\ last' = Response("reject_payment", pid, "reject", 400, "MissingReason")
            /\ UNCHANGED << payments, subscriptions >>
       ELSE \E fault \in {"none", "payment"} :
            IF fault = "payment"
            THEN /\ last' = Response("reject_payment", pid, "reject", 500, "InternalError")
                 /\ UNCHANGED << payments, subscriptions >>
            ELSE
            /\ payments' = [payments EXCEPT ![pid] = reject_verification(@, u, notes, now)]
            /\ subscriptions' = [subscriptions EXCEPT
                                   ![payments[pid].subscription].status = "CANCELLED"]
            /\ last' = Response("reject_payment", pid, "reject", 200, "none")
    /\ UNCHANGED << tenants, teams, now, proc, invoicing, teamwork, sproc, routing, inviting, resetting >>

\* reject_payment: the same guard, the rejection reason is mandatory; `fault`
\* names the save that raises.
reject_payment(u, pid, notes) ==
    /\ IF ~is_internal_admin(u)
       THEN /\ last' = Response("reject_payment", pid, "reject", 302, "LoginRequired")
            /\ UNCHANGED payments
       ELSE IF pid \notin DOMAIN payments
       THEN /\ last' = Response("reject_payment", pid, "reject", 404, "NotFound")
            /\ UNCHANGED payments
       ELSE IF payments[pid].verification_status # "PENDING"
       THEN /\ last' = Response("reject_payment", pid, "reject", 400, "NotPending")
            /\ UNCHANGED payments
       ELSE IF notes = ""
       THEN /\ last' = Response("reject_payment", pid, "reject", 400, "MissingReason")
            /\ UNCHANGED payments
       ELSE \E fault \in {"none", "payment"} :
            IF fault = "payment"
            THEN /\ last' = Response("reject_payment", pid, "reject", 500, "InternalError")
                 /\ UNCHANGED payments
            ELSE
            /\ payments' = [payments EXCEPT ![pid] = reject_verification(@, u, notes, now)]
            /\ last' = Response("reject_payment", pid, "reject", 200, "none")
    /\ UNCHANGED << tenants, subscriptions, teams, now, proc, invoicing, teamwork, sproc, routing, inviting, resetting >>

\* ------------------------------------------------------- PaymentViewSet
\* PaymentVerificationSerializer: action is one of approve / reject, notes
\* are optional and may be blank.
PaymentVerificationSerializer_is_valid(action, notes) ==
    action \in {"approve", "reject"}

\* The rows PaymentViewSet.get_queryset lets the user see.
PaymentQueryset(u) ==
    IF is_super_admin(u) THEN DOMAIN payments ELSE {}

\* PaymentViewSet.verify: no guard on verification_status; approve saves the
\* payment and activates the subscription, reject saves the payment; then
\* log_activity.  An exception leaves the view and is answered with 500
\* (`fault` names the save that raises, "log" the ActivityLog insert).
PaymentViewSet_verify(u, pid, action, notes) ==
    /\ IF ~is_super_admin(u)
       THEN /\ last' = Response("PaymentViewSet_verify", pid, action, 403, "Forbidden")
            /\ UNCHANGED << subscriptions, payments >>
       ELSE IF pid \notin PaymentQueryset(u)
       THEN /\ last' = Response("PaymentViewSet_verify", pid, action, 404, "NotFound")
            /\ UNCHANGED << subscriptions, payments >>
       ELSE IF ~PaymentVerificationSerializer_is_valid(action, notes)
       THEN /\ last' = Response("PaymentViewSet_verify", pid, action, 400, "ValidationError")
            /\ UNCHANGED << subscriptions, payments >>
       ELSE \E fault \in {"none", "payment", "subscription", "log"} :
            IF fault = "payment"
            THEN /\ last' = Response("PaymentViewSet_verify", pid, action, 500, "InternalError")
                 /\ UNCHANGED << subscriptions, payments >>
            ELSE IF action = "approve"
            THEN LET sid == payments[pid].subscription
                     subSave == subscriptions[sid].status # "ACTIVE"
                 IN  /\ payments' = [payments EXCEPT
                                       ![pid] = approve_verification(@, u, notes, now)]
                     /\ IF subSave /\ fault = "subscription"
                        THEN /\ last' = Response("PaymentViewSet_verify", pid, action,
                                                 500, "InternalError")
                             /\ UNCHANGED subscriptions
                        ELSE /\ subscriptions' =
                                   IF subSave
                                   THEN [subscriptions EXCEPT ![sid].status = "ACTIVE"]
                                   ELSE subscriptions
                             /\ last' = IF fault = "log"
                                        THEN Response("PaymentViewSet_verify", pid, action,
                                                      500, "LogFailed")
                                        ELSE Response("PaymentViewSet_verify", pid, action,
                                                      200, "none")
            ELSE /\ payments' = [payments EXCEPT
                                  ![pid] = reject_verification(@, u, notes, now)]
                 /\ last' = IF fault = "log"
                            THEN Response("PaymentViewSet_verify", pid, action,
                                          500, "LogFailed")
                            ELSE Response("PaymentViewSet_verify", pid, action,
                                          200, "none")
                 /\ UNCHANGED subscriptions
    /\ UNCHANGED << tenants, teams, now, proc, invoicing, teamwork, sproc, routing, inviting, resetting >>

\* ------------------------------------------------------------ tenant views
\* The rows TenantViewSet.get_queryset lets the user see.
TenantQueryset(u) ==
    IF is_super_admin(u) THEN DOMAIN tenants ELSE {}

\* TenantViewSet.approve: Tenant.approve, then the optional notes replace
\* the tenant's notes.
TenantViewSet_approve(u, tid, notes) ==
    /\ IF ~is_super_admin(u)
       THEN /\ last' = Response("TenantViewSet_approve", tid, "none", 403, "Forbidden")
            /\ UNCHANGED tenants
       ELSE IF tid \notin TenantQueryset(u)
       THEN /\ last' = Response("TenantViewSet_approve", tid, "none", 404, "NotFound")
            /\ UNCHANGED tenants
       ELSE LET t == Tenant_approve(tenants[tid], u, now)
            IN  /\ tenants' = [tenants EXCEPT ![tid] =
                                  IF notes # "" THEN [t EXCEPT !.notes = << <<"Note", notes>> >>]
                                  ELSE t]
                /\ \E fault \in {"none", "log"} :
                      last' = IF fault = "log"
                              THEN Response("TenantViewSet_approve", tid, "none",
                                            500, "LogFailed")
                              ELSE Response("TenantViewSet_approve", tid, "none",
                                            200, "none")
    /\ UNCHANGED << subscriptions, payments, teams, now, proc, invoicing, teamwork, sproc, routing, inviting, resetting >>

\* approve_tenant (admin panel): only a PENDING tenant.
approve_tenant(u, tid) ==
    /\ IF ~is_internal_admin(u)
       THEN /\ last' = Response("approve_tenant", tid, "none", 302, "LoginRequired")
            /\ UNCHANGED tenants
       ELSE IF tid \notin DOMAIN tenants
       THEN /\ last' = Response("approve_tenant", tid, "none", 404, "NotFound")
            /\ UNCHANGED tenants
       ELSE IF tenants[tid].status # "PENDING"
       THEN /\ last' = Response("approve_tenant", tid, "none", 400, "NotPending")
            /\ UNCHANGED tenants
       ELSE /\ tenants' = [tenants EXCEPT ![tid].status = "ACTIVE",
                                          ![tid].is_approved = TRUE,
                                          ![tid].approved_at = Some(now),
                                          ![tid].approved_by = Some(u)]
            /\ last' = Response("approve_tenant", tid, "none", 200, "none")
    /\ UNCHANGED << subscriptions, payments, teams, now, proc, invoicing, teamwork, sproc, routing, inviting, resetting >>

\* TenantViewSet.suspend: the reason is required and may not be blank; no
\* guard on the tenant's status.
TenantViewSet_suspend(u, tid, reason) ==
    /\ IF ~is_super_admin(u)
       THEN /\ last' = Response("TenantViewSet_suspend", tid, "none", 403, "Forbidden")
            /\ UNCHANGED tenants
       ELSE IF tid \notin TenantQueryset(u)
       THEN /\ last' = Response("TenantViewSet_suspend", tid, "none", 404, "NotFound")
            /\ UNCHANGED tenants
       ELSE IF reason = ""
       THEN /\ last' = Response("TenantViewSet_suspend", tid, "none", 400, "ValidationError")
            /\ UNCHANGED tenants
       ELSE /\ Len(tenants[tid].notes) < MaxNotes
            /\ tenants' = [tenants EXCEPT ![tid] = Tenant_suspend(@, reason)]
            /\ \E fault \in {"none", "log"} :
                  last' = IF fault = "log"
                          THEN Response("TenantViewSet_suspend", tid, "none",
                                        500, "LogFailed")
                          ELSE Response("TenantViewSet_suspend", tid, "none",
                                        200, "none")
    /\ UNCHANGED << subscriptions, payments, teams, now, proc, invoicing, teamwork, sproc, routing, inviting, resetting >>

\* TenantViewSet.activate: get_permissions gives it IsAuthenticated; no
\* guard on the tenant's status.
TenantViewSet_activate(u, tid) ==
    /\ IF tid \notin TenantQueryset(u)
       THEN /\ last' = Response("TenantViewSet_activate", tid, "none", 404, "NotFound")
            /\ UNCHANGED tenants
       ELSE /\ tenants' = [tenants EXCEPT ![tid].status = "ACTIVE"]
            /\ \E fault \in {"none", "log"} :
                  last' = IF fault = "log"
                          THEN Response("TenantViewSet_activate", tid, "none",
                                        500, "LogFailed")
                          ELSE Response("TenantViewSet_activate", tid, "none",
                                        200, "none")
    /\ UNCHANGED << subscriptions, payments, teams, now, proc, invoicing, teamwork, sproc, routing, inviting, resetting >>

\* create_tenant (admin panel): the tenant row is inserted (approved and
\* ACTIVE with auto_approve, PENDING without); Subscription.objects.create
\* then raises on its start_date argument, which the handler's
\* `except Exception` answers with 500.  The tenant row stays.  A slug that
\* is already taken fails the insert of the tenant.
create_tenant(u, domain, auto_approve) ==
    /\ IF ~is_internal_admin(u)
       THEN /\ last' = Response("create_tenant", 0, "none", 302, "LoginRequired")
            /\ UNCHANGED tenants
       ELSE IF \E i \in DOMAIN tenants : tenants[i].slug = <<domain, 0>>
       THEN /\ last' = Response("create_tenant", 0, "none", 500, "IntegrityError")
            /\ UNCHANGED tenants
       ELSE /\ tenants' = Append(tenants,
                              [NewTenant(<<domain, 0>>) EXCEPT
                                 !.status = IF auto_approve THEN "ACTIVE" ELSE "PENDING",
                                 !.is_approved = auto_approve,
                                 !.approved_by = IF auto_approve THEN Some(u) ELSE None,
                                 !.approved_at = IF auto_approve THEN Some(now) ELSE None])
            /\ last' = Response("create_tenant", Len(tenants) + 1, "none", 500, "TypeError")
    /\ UNCHANGED << subscriptions, payments, teams, now, proc, invoicing, teamwork, sproc, routing, inviting, resetting >>

\* TenantAdmin (the Django admin site): the change form writes the status
\* chosen for the tenant.  It is the only writer of CANCELLED, and the edit
\* modelled is that one.  root is the superuser; the other users hold no
\* change permission on tenants.
TenantAdmin_cancel(u, tid) ==
    /\ IF ~is_super_admin(u)
       THEN /\ last' = Response("TenantAdmin_cancel", tid, "none", 403, "Forbidden")
            /\ UNCHANGED tenants
       ELSE IF tid \notin DOMAIN tenants
       THEN /\ last' = Response("TenantAdmin_cancel", tid, "none", 404, "NotFound")
            /\ UNCHANGED tenants
       ELSE /\ tenants' = [tenants EXCEPT ![tid].status = "CANCELLED"]
            /\ last' = Response("TenantAdmin_cancel", tid, "none", 200, "none")
    /\ UNCHANGED << subscriptions, payments, teams, now, proc, invoicing, teamwork, sproc, routing, inviting, resetting >>

\* toggle_tenant_status that takes every tenant that is not ACTIVE for a
\* suspended one.
toggle_tenant_status_any(u, tid) ==
    /\ IF ~is_internal_admin(u)
       THEN /\ last' = Response("toggle_tenant_status", tid, "none", 302, "LoginRequired")
            /\ UNCHANGED tenants
       ELSE IF tid \notin DOMAIN tenants
       THEN /\ last' = Response("toggle_tenant_status", tid, "none", 404, "NotFound")
            /\ UNCHANGED tenants
       ELSE IF tenants[tid].status = "ACTIVE"
       THEN /\ tenants' = [tenants EXCEPT ![tid].status = "SUSPENDED"]
            /\ last' = Response("toggle_tenant_status", tid, "none", 200, "none")
       ELSE /\ tenants' = [tenants EXCEPT ![tid].status = "ACTIVE"]
            /\ last' = Response("toggle_tenant_status", tid, "none", 200, "none")
    /\ UNCHANGED << subscriptions, payments, teams, now, proc, invoicing, teamwork, sproc, routing, inviting, resetting >>

\* toggle_tenant_status (admin panel): ACTIVE <-> SUSPENDED.
toggle_tenant_status(u, tid) ==
    /\ IF ~is_internal_admin(u)
       THEN /\ last' = Response("toggle_tenant_status", tid, "none", 302, "LoginRequired")
            /\ UNCHANGED tenants
       ELSE IF tid \notin DOMAIN tenants
       THEN /\ last' = Response("toggle_tenant_status", tid, "none", 404, "NotFound")
            /\ UNCHANGED tenants
       ELSE IF tenants[tid].status = "ACTIVE"
       THEN /\ tenants' = [tenants EXCEPT ![tid].status = "SUSPENDED"]
            /\ last' = Response("toggle_tenant_status", tid, "none", 200, "none")
       ELSE IF tenants[tid].status = "SUSPENDED"
       THEN /\ tenants' = [tenants EXCEPT ![tid].status = "ACTIVE"]
            /\ last' = Response("toggle_tenant_status", tid, "none", 200, "none")
       ELSE /\ last' = Response("toggle_tenant_status", tid, "none", 400, "InvalidTransition")
            /\ UNCHANGED tenants
    /\ UNCHANGED << subscriptions, payments, teams, now, proc, invoicing, teamwork, sproc, routing, inviting, resetting >>

\* ------------------------------------------------------ the request inputs
TenantIdInputs == 1..MaxTenants

SubscriptionIdInputs == 1..MaxSubscriptions

PaymentIdInputs == 1..MaxPayments

\* ------------------------------------------- requests served one at a time
\* The plans that start with a trial: the subscriptions of Spec start as
\* TRIAL (SubscriptionSpec has every plan).
TrialPlanIds == {p \in PlanIds : Plans[p].trial_days > 0}

Next ==
    \/ Tick
    \/ /\ Len(tenants) < MaxTenants
       /\ \E name \in Names : TenantViewSet_create(name)
    \/ \E domain \in Names : complete_signup(domain)
    \/ /\ Len(tenants) < MaxTenants
       /\ \E u \in Users, domain \in Names, auto_approve \in BOOLEAN :
             create_tenant(u, domain, auto_approve)
    \/ \E u \in Users, tid \in TenantIdInputs, plan \in TrialPlanIds :
          SubscriptionViewSet_create(u, tid, plan)
    \/ \E u \in Users, sid \in SubscriptionIdInputs, immediately \in BOOLEAN :
          SubscriptionViewSet_cancel(u, sid, immediately)
    \/ \E u \in Users, sid \in SubscriptionIdInputs, tid \in TenantIdInputs :
          PaymentViewSet_create(u, sid, tid)
    \/ \E u \in Users, pid \in PaymentIdInputs, notes \in NoteTexts :
          approve_payment(u, pid, notes)
    \/ \E u \in Users, pid \in PaymentIdInputs, notes \in NoteTexts :
          reject_payment(u, pid, notes)
    \/ \E u \in Users, pid \in PaymentIdInputs,
          action \in {"approve", "reject", "refund"}, notes \in NoteTexts :
          PaymentViewSet_verify(u, pid, action, notes)
    \/ \E u \in Users, tid \in TenantIdInputs, notes \in NoteTexts :
          TenantViewSet_approve(u, tid, notes)
    \/ \E u \in Users, tid \in TenantIdInputs : approve_tenant(u, tid)
    \/ \E u \in Users, tid \in TenantIdInputs, reason \in NoteTexts :
          TenantViewSet_suspend(u, tid, reason)
    \/ \E u \in Users, tid \in TenantIdInputs : TenantViewSet_activate(u, tid)
    \/ \E u \in Users, tid \in TenantIdInputs : toggle_tenant_status(u, tid)

Spec == Init /\ [][Next]_vars

\* ------------------------------------- requests in flight (admin panel)
\* The admin-panel payment views, one database query per step.  Model.save()
\* writes every column of the instance the request holds.
\* approve_payment / reject_payment up to the first write: the decorators,
\* get_object_or_404 (the read), the guard on the copy just read and, for a
\* rejection, the check of the reason.
payment_view_get(w, op, u, pid, notes) ==
    /\ proc[w].pc = "idle"
    /\ LET r == [proc[w] EXCEPT !.op = op, !.u = u, !.pid = pid, !.notes = notes]
       IN  IF ~is_internal_admin(u)
           THEN proc' = [proc EXCEPT ![w] = [r EXCEPT !.pc = "done", !.code = 302,
                                                      !.err = "LoginRequired"]]
           ELSE IF pid \notin DOMAIN payments
           THEN proc' = [proc EXCEPT ![w] = [r EXCEPT !.pc = "done", !.code = 404,
                                                      !.err = "NotFound"]]
           ELSE IF payments[pid].verification_status # "PENDING"
           THEN proc' = [proc EXCEPT ![w] = [r EXCEPT !.pc = "done", !.code = 400,
                                                      !.err = "NotPending"]]
           ELSE IF op = "reject_payment" /\ notes = ""
           THEN proc' = [proc EXCEPT ![w] = [r EXCEPT !.pc = "done", !.code = 400,
                                                      !.err = "MissingReason"]]
           ELSE proc' = [proc EXCEPT ![w] = [r EXCEPT !.pc = "save_payment",
                                                      !.payment = Some(payments[pid])]]
    /\ UNCHANGED << tenants, subscriptions, payments, teams, now, last, invoicing, teamwork, sproc, routing, inviting, resetting >>

\* payment.approve_verification(...) / payment.reject_verification(...):
\* the copy is changed and saved.
payment_view_save_payment(w) ==
    /\ proc[w].pc = "save_payment"
    /\ LET r == proc[w]
           p == IF r.op = "approve_payment"
                THEN approve_verification(r.payment[1], r.u, r.notes, now)
                ELSE reject_verification(r.payment[1], r.u, r.notes, now)
       IN  /\ payments' = [payments EXCEPT ![r.pid] = p]
           /\ proc' = [proc EXCEPT ![w] =
                         IF r.op = "approve_payment"
                         THEN [r EXCEPT !.payment = Some(p), !.pc = "get_tenant"]
                         ELSE [r EXCEPT !.payment = Some(p), !.pc = "done",
                                        !.code = 200, !.err = "none"]]
    /\ UNCHANGED << tenants, subscriptions, teams, now, last, invoicing, teamwork, sproc, routing, inviting, resetting >>

\* payment.tenant: the tenant row is read; `if payment.tenant.status == 'PENDING'`.
approve_payment_get_tenant(w) ==
    /\ proc[w].pc = "get_tenant"
    /\ LET t == tenants[proc[w].payment[1].tenant]
       IN  proc' = [proc EXCEPT ![w].tenant = Some(t),
                                ![w].pc = IF t.status = "PENDING" THEN "save_tenant"
                                          ELSE "get_subscription"]
    /\ UNCHANGED << tenants, subscriptions, payments, teams, now, last, invoicing, teamwork, sproc, routing, inviting, resetting >>

\* payment.tenant.save() after the four assignments.
approve_payment_save_tenant(w) ==
    /\ proc[w].pc = "save_tenant"
    /\ LET r == proc[w]
           t == [r.tenant[1] EXCEPT !.status = "ACTIVE", !.is_approved = TRUE,
                                    !.approved_at = Some(now), !.approved_by = Some(r.u)]
       IN  /\ tenants' = [tenants EXCEPT ![r.payment[1].tenant] = t]
           /\ proc' = [proc EXCEPT ![w].tenant = Some(t), ![w].pc = "get_subscription"]
    /\ UNCHANGED << subscriptions, payments, teams, now, last, invoicing, teamwork, sproc, routing, inviting, resetting >>

\* payment.subscription: the subscription row is read;
\* `if payment.subscription.status != 'ACTIVE'`.
approve_payment_get_subscription(w) ==
    /\ proc[w].pc = "get_subscription"
    /\ LET s == subscriptions[proc[w].payment[1].subscription]
       IN  IF s.status # "ACTIVE"
           THEN proc' = [proc EXCEPT ![w].subscription = Some(s),
                                     ![w].pc = "save_subscription"]
           ELSE proc' = [proc EXCEPT ![w].subscription = Some(s), ![w].pc = "done",
                                     ![w].code = 200, ![w].err = "none"]
    /\ UNCHANGED << tenants, subscriptions, payments, teams, now, last, invoicing, teamwork, sproc, routing, inviting, resetting >>

\* payment.subscription.save() after status = 'ACTIVE'; the success answer.
approve_payment_save_subscription(w) ==
    /\ proc[w].pc = "save_subscription"
    /\ LET r == proc[w]
           s == [r.subscription[1] EXCEPT !.status = "ACTIVE"]
       IN  /\ subscriptions' = [subscriptions EXCEPT ![r.payment[1].subscription] = s]
           /\ proc' = [proc EXCEPT ![w].subscription = Some(s), ![w].pc = "done",
                                   ![w].code = 200, ![w].err = "none"]
    /\ UNCHANGED << tenants, payments, teams, now, last, invoicing, teamwork, sproc, routing, inviting, resetting >>

\* The rows are created by requests served alone; then up to two admin-panel
\* payment requests are in flight at once.
ConcNext ==
    \/ /\ Len(tenants) < MaxTenants
       /\ \E name \in Names : TenantViewSet_create(name)
    \/ \E tid \in TenantIdInputs, plan \in PlanIds :
          SubscriptionViewSet_create("root", tid, plan)
    \/ \E sid \in SubscriptionIdInputs, tid \in TenantIdInputs :
          PaymentViewSet_create("root", sid, tid)
    \/ \E w \in Workers, op \in {"approve_payment", "reject_payment"},
          u \in Users, pid \in PaymentIdInputs, notes \in NoteTexts :
          payment_view_get(w, op, u, pid, notes)
    \/ \E w \in Workers : payment_view_save_payment(w)
    \/ \E w \in Workers : approve_payment_get_tenant(w)
    \/ \E w \in Workers : approve_payment_save_tenant(w)
    \/ \E w \in Workers : approve_payment_get_subscription(w)
    \/ \E w \in Workers : approve_payment_save_subscription(w)

ConcSpec == Init /\ [][ConcNext]_vars

\* -------------------------------------------------------------- the teams
\* TenantMiddleware: the tenant the request's host names, when it is ACTIVE
\* (host 0: the host names no tenant).
request_tenant(host) ==
    IF host \in DOMAIN tenants /\ tenants[host].status = "ACTIVE"
    THEN Some(host) ELSE None

\* LimitUsageMiddleware.process_request on POST /api/teams/: TRUE when it
\* answers the request itself.
LimitUsageMiddleware(u, host) ==
    /\ request_tenant(host) # None
    /\ ~is_super_admin(u)
    /\ check_limits(tenants[request_tenant(host)[1]]).teams

\* IsApprovedTenant.has_permission.
IsApprovedTenant(u) ==
    \/ is_super_admin(u)
    \/ /\ user_tenant(u) # None
       /\ tenants[user_tenant(u)[1]].is_approved

\* The first free team slug of the tenant among base, base-1, ...
FreeTeamSlug(tid, name) ==
    LET taken(k) == \E i \in DOMAIN teams \ deleted_teams :
                       teams[i].tenant = tid /\ teams[i].slug = <<name, k>>
    IN  <<name, CHOOSE k \in 0..Len(teams) :
                    /\ ~taken(k)
                    /\ \A j \in 0..(k - 1) : taken(j)>>

\* POST /api/teams/ by an existing account: LimitUsageMiddleware, the
\* permissions, then TeamViewSet.create (the limit check on the caller's
\* tenant, the inserts, the tenant's counter, log_activity).
TeamViewSet_create(u, name, host) ==
    /\ user_tenant(u) # None => user_tenant(u)[1] \in DOMAIN tenants
    /\ IF LimitUsageMiddleware(u, host)
       THEN /\ last' = Response("TeamViewSet_create", 0, "none", 403, "LimitExceeded")
            /\ UNCHANGED << tenants, teams, team_members >>
       ELSE IF ~IsApprovedTenant(u)
       THEN /\ last' = Response("TeamViewSet_create", 0, "none", 403, "Forbidden")
            /\ UNCHANGED << tenants, teams, team_members >>
       ELSE IF user_tenant(u) = None
       THEN /\ last' = Response("TeamViewSet_create", 0, "none", 500, "AttributeError")
            /\ UNCHANGED << tenants, teams, team_members >>
       ELSE LET tid == user_tenant(u)[1]
                t == tenants[tid]
            IN  IF t.current_teams_count >= t.max_teams
                THEN /\ last' = Response("TeamViewSet_create", 0, "none", 403, "LimitExceeded")
                     /\ UNCHANGED << tenants, teams, team_members >>
                ELSE \E fault \in {"none", "log"} :
                     /\ teams' = Append(teams, [tenant |-> tid, owner |-> u,
                                                slug |-> FreeTeamSlug(tid, name),
                                                members_count |-> 1])
                     /\ team_members' = team_members \cup
                           {[team |-> Len(teams) + 1, user |-> u, role |-> "OWNER"]}
                     /\ tenants' = [tenants EXCEPT ![tid].current_teams_count = @ + 1]
                     /\ last' = IF fault = "log"
                                THEN Response("TeamViewSet_create", Len(teams) + 1, "none",
                                              500, "LogFailed")
                                ELSE Response("TeamViewSet_create", Len(teams) + 1, "none",
                                              201, "none")
    /\ UNCHANGED << subscriptions, payments, now, proc, invoicing, deleted_teams, tproc, sproc, routing, inviting, resetting >>

\* Tenants are registered, approved and given a plan; their accounts create
\* teams.
TeamNext ==
    \/ /\ Len(tenants) < MaxTenants
       /\ \E name \in Names : TenantViewSet_create(name)
    \/ \E tid \in TenantIdInputs, notes \in NoteTexts :
          TenantViewSet_approve("root", tid, notes)
    \/ \E tid \in TenantIdInputs : toggle_tenant_status("root", tid)
    \/ \E tid \in TenantIdInputs, plan \in PlanIds :
          SubscriptionViewSet_create("root", tid, plan)
    \/ /\ Len(teams) < MaxTeams
       /\ \E u \in TeamUsers, name \in Names, host \in 0..MaxTenants :
             TeamViewSet_create(u, name, host)

TeamSpec == Init /\ [][TeamNext]_vars

\* The teams TeamViewSet.get_queryset lets the user see (every team is
\* public).
TeamQueryset(u) ==
    IF is_super_admin(u) THEN DOMAIN teams \ deleted_teams
    ELSE IF user_tenant(u) # None
    THEN {i \in DOMAIN teams \ deleted_teams : teams[i].tenant = user_tenant(u)[1]}
    ELSE {}

\* ---------------------------------------------------------- team members
\* The accounts that send member requests: the owner and "dev", a plain
\* account, of tenant 1, and an account of no tenant.
MemberUsers == {"owner", "dev", "member"}

\* request.data.get('role', 'MEMBER'): any text.
MemberRoles == {"MEMBER", "ADMIN"}

\* The first checks of add_member and remove_member: the permissions,
\* get_object, and the caller's own membership, which must exist and not be
\* of role MEMBER.  The answer they give, or "pass".
member_request_gate(u, team) ==
    IF ~IsApprovedTenant(u) THEN <<403, "Forbidden">>
    ELSE IF team \notin TeamQueryset(u) THEN <<404, "NotFound">>
    ELSE IF ~\E m \in team_members : m.team = team /\ m.user = u /\ m.role # "MEMBER"
    THEN <<403, "Forbidden">>
    ELSE <<0, "pass">>

\* TeamViewSet.add_member without the update of members_count.
TeamViewSet_add_member_uncounted(u, team, user, role) ==
    /\ user_tenant(u) # None => user_tenant(u)[1] \in DOMAIN tenants
    /\ LET gate == member_request_gate(u, team)
       IN  IF gate[2] # "pass"
           THEN /\ last' = Response("TeamViewSet_add_member", team, "none", gate[1], gate[2])
                /\ UNCHANGED << teams, team_members >>
           ELSE IF user_tenant(user) # Some(teams[team].tenant)
           THEN /\ last' = Response("TeamViewSet_add_member", team, "none", 404, "NotFound")
                /\ UNCHANGED << teams, team_members >>
           ELSE IF \E m \in team_members : m.team = team /\ m.user = user
           THEN /\ last' = Response("TeamViewSet_add_member", team, "none", 400, "AlreadyMember")
                /\ UNCHANGED << teams, team_members >>
           ELSE /\ team_members' = team_members \cup
                      {[team |-> team, user |-> user, role |-> role]}
                /\ UNCHANGED teams
                /\ \E fault \in {"none", "log"} :
                      last' = IF fault = "log"
                              THEN Response("TeamViewSet_add_member", team, "none",
                                            500, "LogFailed")
                              ELSE Response("TeamViewSet_add_member", team, "none",
                                            201, "none")
    /\ UNCHANGED << tenants, subscriptions, payments, now, proc, invoicing,
                    deleted_teams, tproc, sproc, routing, inviting, resetting >>

\* TeamViewSet.add_member.
TeamViewSet_add_member(u, team, user, role) ==
    /\ user_tenant(u) # None => user_tenant(u)[1] \in DOMAIN tenants
    /\ LET gate == member_request_gate(u, team)
       IN  IF gate[2] # "pass"
           THEN /\ last' = Response("TeamViewSet_add_member", team, "none", gate[1], gate[2])
                /\ UNCHANGED << teams, team_members >>
           ELSE IF user_tenant(user) # Some(teams[team].tenant)
           THEN /\ last' = Response("TeamViewSet_add_member", team, "none", 404, "NotFound")
                /\ UNCHANGED << teams, team_members >>
           ELSE IF \E m \in team_members : m.team = team /\ m.user = user
           THEN /\ last' = Response("TeamViewSet_add_member", team, "none", 400, "AlreadyMember")
                /\ UNCHANGED << teams, team_members >>
           ELSE /\ team_members' = team_members \cup
                      {[team |-> team, user |-> user, role |-> role]}
                /\ teams' = [teams EXCEPT ![team].members_count = @ + 1]
                /\ \E fault \in {"none", "log"} :
                      last' = IF fault = "log"
                              THEN Response("TeamViewSet_add_member", team, "none",
                                            500, "LogFailed")
                              ELSE Response("TeamViewSet_add_member", team, "none",
                                            201, "none")
    /\ UNCHANGED << tenants, subscriptions, payments, now, proc, invoicing,
                    deleted_teams, tproc, sproc, routing, inviting, resetting >>

\* TeamViewSet.remove_member.
TeamViewSet_remove_member(u, team, user) ==
    /\ user_tenant(u) # None => user_tenant(u)[1] \in DOMAIN tenants
    /\ LET gate == member_request_gate(u, team)
       IN  IF gate[2] # "pass"
           THEN /\ last' = Response("TeamViewSet_remove_member", team, "none", gate[1], gate[2])
                /\ UNCHANGED << teams, team_members >>
           ELSE IF user = teams[team].owner
           THEN /\ last' = Response("TeamViewSet_remove_member", team, "none", 400, "IsOwner")
                /\ UNCHANGED << teams, team_members >>
           ELSE IF ~\E m \in team_members : m.team = team /\ m.user = user
           THEN /\ last' = Response("TeamViewSet_remove_member", team, "none", 404, "NotFound")
                /\ UNCHANGED << teams, team_members >>
           ELSE /\ team_members' = {m \in team_members : ~(m.team = team /\ m.user = user)}
                /\ teams' = [teams EXCEPT ![team].members_count = IF @ > 0 THEN @ - 1 ELSE 0]
                /\ \E fault \in {"none", "log"} :
                      last' = IF fault = "log"
                              THEN Response("TeamViewSet_remove_member", team, "none",
                                            500, "LogFailed")
                              ELSE Response("TeamViewSet_remove_member", team, "none",
                                            200, "none")
    /\ UNCHANGED << tenants, subscriptions, payments, now, proc, invoicing,
                    deleted_teams, tproc, sproc, routing, inviting, resetting >>

MemberNext ==
    \/ /\ Len(tenants) < MaxTenants
       /\ \E name \in Names : TenantViewSet_create(name)
    \/ \E tid \in TenantIdInputs : TenantViewSet_approve("root", tid, "")
    \/ /\ Len(teams) < MaxMemberTeams
       /\ \E u \in MemberUsers, name \in Names : TeamViewSet_create(u, name, 0)
    \/ \E u \in MemberUsers, team \in 1..MaxMemberTeams, user \in MemberUsers,
          role \in MemberRoles :
          TeamViewSet_add_member(u, team, user, role)
    \/ \E u \in MemberUsers, team \in 1..MaxMemberTeams, user \in MemberUsers :
          TeamViewSet_remove_member(u, team, user)

MemberSpec == Init /\ [][MemberNext]_vars

\* ------------------------------------------- team requests served at once
\* Each request is a worker that runs its handler from one database
\* operation to the next; the tenant instance a handler holds is the copy it
\* loaded, and Model.save() writes every column of that copy.

\* TeamViewSet.create up to the limit check: the middleware, the permissions,
\* request.user.tenant loaded, the check on the loaded instance.
team_create_begin(w, u, name, host) ==
    /\ tproc[w].pc = "idle"
    /\ user_tenant(u) # None => user_tenant(u)[1] \in DOMAIN tenants
    /\ IF LimitUsageMiddleware(u, host)
       THEN /\ last' = Response("TeamViewSet_create", 0, "none", 403, "LimitExceeded")
            /\ UNCHANGED tproc
       ELSE IF ~IsApprovedTenant(u)
       THEN /\ last' = Response("TeamViewSet_create", 0, "none", 403, "Forbidden")
            /\ UNCHANGED tproc
       ELSE IF user_tenant(u) = None
       THEN /\ last' = Response("TeamViewSet_create", 0, "none", 500, "AttributeError")
            /\ UNCHANGED tproc
       ELSE LET tid == user_tenant(u)[1]
                t == tenants[tid]
            IN  IF t.current_teams_count >= t.max_teams
                THEN /\ last' = Response("TeamViewSet_create", 0, "none", 403, "LimitExceeded")
                     /\ UNCHANGED tproc
                ELSE /\ tproc' = [tproc EXCEPT ![w] =
                                     [TeamIdle EXCEPT !.pc = "slug", !.op = "TeamViewSet_create",
                                                      !.u = u, !.name = name,
                                                      !.tid = tid, !.tenant = t]]
                     /\ UNCHANGED last
    /\ UNCHANGED << tenants, subscriptions, payments, teams, now, proc, invoicing,
                    team_members, deleted_teams, sproc, routing, inviting, resetting >>

\* The slug loop: the first slug no team of the tenant has at this moment.
team_create_slug(w) ==
    /\ tproc[w].pc = "slug"
    /\ tproc' = [tproc EXCEPT ![w].pc = "insert",
                              ![w].slug = FreeTeamSlug(tproc[w].tid, tproc[w].name)]
    /\ UNCHANGED << tenants, subscriptions, payments, teams, now, last, proc, invoicing,
                    team_members, deleted_teams, sproc, routing, inviting, resetting >>

\* serializer.save and TeamMember.objects.create: the team and its owner's
\* membership are inserted; unique_together (tenant, slug) refuses a slug that
\* was taken in the meantime.
team_create_insert(w) ==
    /\ tproc[w].pc = "insert"
    /\ IF \E i \in DOMAIN teams \ deleted_teams :
             teams[i].tenant = tproc[w].tid /\ teams[i].slug = tproc[w].slug
       THEN /\ last' = Response("TeamViewSet_create", 0, "none", 500, "IntegrityError")
            /\ tproc' = [tproc EXCEPT ![w] = TeamIdle]
            /\ UNCHANGED << teams, team_members >>
       ELSE /\ teams' = Append(teams, [tenant |-> tproc[w].tid, owner |-> tproc[w].u,
                                       slug |-> tproc[w].slug, members_count |-> 1])
            /\ team_members' = team_members \cup
                  {[team |-> Len(teams) + 1, user |-> tproc[w].u, role |-> "OWNER"]}
            /\ tproc' = [tproc EXCEPT ![w].pc = "save", ![w].team = Len(teams) + 1]
            /\ UNCHANGED last
    /\ UNCHANGED << tenants, subscriptions, payments, now, proc, invoicing, deleted_teams, sproc, routing, inviting, resetting >>

\* tenant.current_teams_count += 1; tenant.save(); team.save() (an UPDATE, or
\* an INSERT when the row is gone); log_activity; the response.
team_create_save(w) ==
    /\ tproc[w].pc = "save"
    /\ tenants' = [tenants EXCEPT ![tproc[w].tid] =
                      [tproc[w].tenant EXCEPT !.current_teams_count = @ + 1]]
    /\ teams' = [teams EXCEPT ![tproc[w].team].members_count = 1]
    /\ deleted_teams' = deleted_teams \ {tproc[w].team}
    /\ \E fault \in {"none", "log"} :
          last' = IF fault = "log"
                  THEN Response("TeamViewSet_create", tproc[w].team, "none", 500, "LogFailed")
                  ELSE Response("TeamViewSet_create", tproc[w].team, "none", 201, "none")
    /\ tproc' = [tproc EXCEPT ![w] = TeamIdle]
    /\ UNCHANGED << subscriptions, payments, now, proc, invoicing, team_members, sproc, routing, inviting, resetting >>

\* TeamViewSet.destroy up to team.delete(): the permissions, get_object, the
\* owner check, team.tenant loaded.
team_destroy_begin(w, u, team) ==
    /\ tproc[w].pc = "idle"
    /\ user_tenant(u) # None => user_tenant(u)[1] \in DOMAIN tenants
    /\ IF ~IsApprovedTenant(u)
       THEN /\ last' = Response("TeamViewSet_destroy", team, "none", 403, "Forbidden")
            /\ UNCHANGED tproc
       ELSE IF team \notin TeamQueryset(u)
       THEN /\ last' = Response("TeamViewSet_destroy", team, "none", 404, "NotFound")
            /\ UNCHANGED tproc
       ELSE IF teams[team].owner # u /\ ~is_super_admin(u)
       THEN /\ last' = Response("TeamViewSet_destroy", team, "none", 403, "Forbidden")
            /\ UNCHANGED tproc
       ELSE /\ tproc' = [tproc EXCEPT ![w] =
                            [TeamIdle EXCEPT !.pc = "delete", !.op = "TeamViewSet_destroy",
                                             !.u = u, !.team = team,
                                             !.tid = teams[team].tenant,
                                             !.tenant = tenants[teams[team].tenant]]]
            /\ UNCHANGED last
    /\ UNCHANGED << tenants, subscriptions, payments, teams, now, proc, invoicing,
                    team_members, deleted_teams, sproc, routing, inviting, resetting >>

\* team.delete(): the row and, by cascade, its memberships.
team_destroy_delete(w) ==
    /\ tproc[w].pc = "delete"
    /\ deleted_teams' = deleted_teams \cup {tproc[w].team}
    /\ team_members' = {m \in team_members : m.team # tproc[w].team}
    /\ tproc' = [tproc EXCEPT ![w].pc = "count"]
    /\ UNCHANGED << tenants, subscriptions, payments, teams, now, last, proc, invoicing, sproc, routing, inviting, resetting >>

\* tenant.current_teams_count = max(0, count - 1); tenant.save(); the
\* response.
team_destroy_save(w) ==
    /\ tproc[w].pc = "count"
    /\ tenants' = [tenants EXCEPT ![tproc[w].tid] =
                      [tproc[w].tenant EXCEPT !.current_teams_count =
                          IF @ > 0 THEN @ - 1 ELSE 0]]
    /\ \E fault \in {"none", "log"} :
          last' = IF fault = "log"
                  THEN Response("TeamViewSet_destroy", tproc[w].team, "none", 500, "LogFailed")
                  ELSE Response("TeamViewSet_destroy", tproc[w].team, "none", 204, "none")
    /\ tproc' = [tproc EXCEPT ![w] = TeamIdle]
    /\ UNCHANGED << subscriptions, payments, teams, now, proc, invoicing,
                    team_members, deleted_teams, sproc, routing, inviting, resetting >>

\* The account of tenant 1 that sends the team requests, and the plan whose
\* ceiling the bound on the teams lets them reach.
TeamConcUsers == {"owner"}

SmallPlans == {p \in PlanIds : Plans[p].max_teams < MaxTeams}

\* The tenant is registered, approved and given its plan before its first
\* team request; the team requests then run at once.
TeamConcNext ==
    \/ /\ Len(tenants) < MaxTenants
       /\ \E name \in Names : TenantViewSet_create(name)
    \/ /\ teams = << >>
       /\ \A w \in TeamWorkers : tproc[w].pc = "idle"
       /\ \/ \E tid \in TenantIdInputs : TenantViewSet_approve("root", tid, "")
          \/ \E tid \in TenantIdInputs, plan \in SmallPlans :
                SubscriptionViewSet_create("root", tid, plan)
    \/ /\ Len(teams) + Cardinality({w \in TeamWorkers : tproc[w].pc \in {"slug", "insert"}})
            < MaxTeams
       /\ \E w \in TeamWorkers, u \in TeamConcUsers, name \in Names, host \in 0..MaxTenants :
             team_create_begin(w, u, name, host)
    \/ \E w \in TeamWorkers : team_create_slug(w)
    \/ \E w \in TeamWorkers : team_create_insert(w)
    \/ \E w \in TeamWorkers : team_create_save(w)
    \/ \E w \in TeamWorkers, u \in TeamConcUsers, team \in 1..MaxTeams :
          team_destroy_begin(w, u, team)
    \/ \E w \in TeamWorkers : team_destroy_delete(w)
    \/ \E w \in TeamWorkers : team_destroy_save(w)

TeamConcSpec == Init /\ [][TeamConcNext]_vars

\* --------------------------------------------- the tenant lifecycle alone
\* The requests that write a tenant's status: the two creations, the admin
\* site, the tenant endpoints and the cascade of approve_payment (with the
\* creations its payment needs).
TenantNext ==
    \/ Tick
    \/ /\ Len(tenants) < MaxTenants
       /\ \E name \in Names : TenantViewSet_create(name)
    \/ /\ Len(tenants) < MaxTenants
       /\ \E u \in Users, domain \in Names, auto_approve \in BOOLEAN :
             create_tenant(u, domain, auto_approve)
    \/ \E u \in Users, tid \in TenantIdInputs : TenantAdmin_cancel(u, tid)
    \/ \E u \in Users, tid \in TenantIdInputs, notes \in NoteTexts :
          TenantViewSet_approve(u, tid, notes)
    \/ \E u \in Users, tid \in TenantIdInputs : approve_tenant(u, tid)
    \/ \E u \in Users, tid \in TenantIdInputs, reason \in NoteTexts :
          TenantViewSet_suspend(u, tid, reason)
    \/ \E u \in Users, tid \in TenantIdInputs : TenantViewSet_activate(u, tid)
    \/ \E u \in Users, tid \in TenantIdInputs : toggle_tenant_status(u, tid)
    \/ \E tid \in TenantIdInputs, plan \in PlanIds :
          SubscriptionViewSet_create("root", tid, plan)
    \/ \E sid \in SubscriptionIdInputs, tid \in TenantIdInputs :
          PaymentViewSet_create("root", sid, tid)
    \/ \E u \in Users, pid \in PaymentIdInputs, notes \in NoteTexts :
          approve_payment(u, pid, notes)

TenantSpec == Init /\ [][TenantNext]_vars

\* ------------------------------------------------------ the signups alone
\* The three requests that register a tenant, for up to MaxSignupTenants
\* tenants.
SignupNext ==
    \/ Tick
    \/ /\ Len(tenants) < MaxSignupTenants
       /\ \E name \in Names : TenantViewSet_create(name)
    \/ \E domain \in Names : complete_signup(domain)
    \/ /\ Len(tenants) < MaxSignupTenants
       /\ \E u \in Users, domain \in Names, auto_approve \in BOOLEAN :
             create_tenant(u, domain, auto_approve)

SignupSpec == Init /\ [][SignupNext]_vars

\* ---------------------------------- subscription requests served at once
\* SubscriptionViewSet.create, one database operation per step.
\* get_object_or_404(Tenant) and get_object_or_404(Plan).
subscription_create_get(w, tid, plan) ==
    /\ sproc[w].pc = "idle"
    /\ IF tid \notin DOMAIN tenants
       THEN /\ last' = Response("SubscriptionViewSet_create", 0, "none", 404, "NotFound")
            /\ UNCHANGED sproc
       ELSE /\ sproc' = [sproc EXCEPT ![w] =
                            [SubscriptionIdle EXCEPT !.pc = "insert", !.tid = tid,
                                                     !.plan = plan, !.tenant = tenants[tid]]]
            /\ UNCHANGED last
    /\ UNCHANGED << tenants, subscriptions, payments, teams, now, proc, invoicing, teamwork, routing, inviting, resetting >>

\* Subscription.objects.create.
subscription_create_insert(w) ==
    /\ sproc[w].pc = "insert"
    /\ subscriptions' = Append(subscriptions,
          [tenant |-> sproc[w].tid, plan |-> sproc[w].plan,
           status |-> IF Plans[sproc[w].plan].trial_days > 0 THEN "TRIAL" ELSE "ACTIVE",
           current_period_start |-> now,
           current_period_end |-> now + PeriodDays(Plans[sproc[w].plan].billing_interval),
           cancel_at_period_end |-> FALSE,
           cancelled_at |-> None])
    /\ sproc' = [sproc EXCEPT ![w].pc = "save", ![w].sid = Len(subscriptions) + 1]
    /\ UNCHANGED << tenants, payments, teams, now, last, proc, invoicing, teamwork, routing, inviting, resetting >>

\* tenant.subscription = subscription and the limits of the plan;
\* tenant.save(); log_activity; the response.
subscription_create_save(w) ==
    /\ sproc[w].pc = "save"
    /\ tenants' = [tenants EXCEPT ![sproc[w].tid] =
                      [sproc[w].tenant EXCEPT !.subscription = Some(sproc[w].sid),
                                              !.max_teams = Plans[sproc[w].plan].max_teams]]
    /\ \E fault \in {"none", "log"} :
          last' = IF fault = "log"
                  THEN Response("SubscriptionViewSet_create", sproc[w].sid, "none",
                                500, "LogFailed")
                  ELSE Response("SubscriptionViewSet_create", sproc[w].sid, "none",
                                201, "none")
    /\ sproc' = [sproc EXCEPT ![w] = SubscriptionIdle]
    /\ UNCHANGED << subscriptions, payments, teams, now, proc, invoicing, teamwork, routing, inviting, resetting >>

SubscriptionConcNext ==
    \/ Tick
    \/ /\ Len(tenants) < MaxTenants
       /\ \E name \in Names : TenantViewSet_create(name)
    \/ \E domain \in Names : complete_signup(domain)
    \/ /\ Len(subscriptions)
            + Cardinality({w \in SubscriptionWorkers : sproc[w].pc = "insert"})
            < MaxConcSubscriptions
       /\ \E w \in SubscriptionWorkers, tid \in 0..MaxTenants, plan \in PlanIds :
             subscription_create_get(w, tid, plan)
    \/ \E w \in SubscriptionWorkers : subscription_create_insert(w)
    \/ \E w \in SubscriptionWorkers : subscription_create_save(w)

SubscriptionConcSpec == Init /\ [][SubscriptionConcNext]_vars

\* --------------------------------------------------- tenant by host name
\* A path is the sequence of its segments.
ExcludedPrefixes == { <<"django-admin">>, <<"api", "auth">>, <<"admin", "login">> }

StartsWith(path, prefix) ==
    /\ Len(path) >= Len(prefix)
    /\ SubSeq(path, 1, Len(prefix)) = prefix

\* TenantMiddleware.process_request with the status of the domain's tenant
\* not looked at.
TenantMiddleware_any(path, host) ==
    IF \E prefix \in ExcludedPrefixes : StartsWith(path, prefix) THEN None
    ELSE IF \E d \in domains : d.domain = host /\ d.is_verified
    THEN Some((CHOOSE d \in domains : d.domain = host /\ d.is_verified).tenant)
    ELSE IF host.base # "" /\ \E i \in DOMAIN tenants :
                                 tenants[i].slug = host.sub /\ tenants[i].status = "ACTIVE"
    THEN Some(CHOOSE i \in DOMAIN tenants :
                 tenants[i].slug = host.sub /\ tenants[i].status = "ACTIVE")
    ELSE None

\* TenantMiddleware.process_request: the value it leaves in request.tenant.
TenantMiddleware(path, host) ==
    IF \E prefix \in ExcludedPrefixes : StartsWith(path, prefix) THEN None
    ELSE IF \E d \in domains : d.domain = host /\ d.is_verified
    THEN LET tid == (CHOOSE d \in domains : d.domain = host /\ d.is_verified).tenant
         IN  IF tenants[tid].status # "ACTIVE" THEN None ELSE Some(tid)
    ELSE IF host.base # "" /\ \E i \in DOMAIN tenants :
                                 tenants[i].slug = host.sub /\ tenants[i].status = "ACTIVE"
    THEN Some(CHOOSE i \in DOMAIN tenants :
                 tenants[i].slug = host.sub /\ tenants[i].status = "ACTIVE")
    ELSE None

\* A request passes through the middleware.
TenantMiddleware_process_request(path, host) ==
    /\ request' = [path |-> path, host |-> host, tenant |-> TenantMiddleware(path, host)]
    /\ UNCHANGED << tenants, subscriptions, payments, teams, now, last, proc, invoicing,
                    teamwork, sproc, domains, inviting, resetting >>

\* DomainAdmin (admin site, staff only): a domain is added to a tenant,
\* verified or not.
DomainAdmin_save(u, tid, host, is_verified) ==
    /\ tid \in DOMAIN tenants
    /\ IF ~is_internal_admin(u)
       THEN /\ last' = Response("DomainAdmin_save", 0, "none", 302, "LoginRequired")
            /\ UNCHANGED domains
       ELSE IF DomainTaken(host)
       THEN /\ last' = Response("DomainAdmin_save", 0, "none", 200, "ValidationError")
            /\ UNCHANGED domains
       ELSE /\ domains' = domains \cup {[tenant |-> tid, domain |-> host,
                                          is_verified |-> is_verified]}
            /\ last' = Response("DomainAdmin_save", tid, "none", 302, "none")
    /\ UNCHANGED << tenants, subscriptions, payments, teams, now, proc, invoicing,
                    teamwork, sproc, request, inviting, resetting >>

\* The hosts and the paths of the requests.
CustomHost == [sub |-> <<"www", 0>>, base |-> "custom.com"]

HostInputs ==
    { DefaultDomain(<<name, 0>>) : name \in Names }
       \cup { [sub |-> <<name, 0>>, base |-> "other.org"] : name \in Names }
       \cup { CustomHost, [sub |-> <<"localhost", 0>>, base |-> ""] }

PathInputs ==
    { <<"django-admin", "tenants">>, <<"api", "auth", "login">>, <<"admin", "login">>,
      <<"api", "teams">>, <<"admin">> }

MiddlewareNext ==
    \/ /\ Len(tenants) < MaxTenants
       /\ \E name \in Names : TenantViewSet_create(name)
    \/ \E tid \in TenantIdInputs : TenantViewSet_approve("root", tid, "")
    \/ \E tid \in TenantIdInputs : toggle_tenant_status("root", tid)
    \/ /\ Cardinality(domains) < MaxDomains
       /\ \E u \in Users, tid \in TenantIdInputs, is_verified \in BOOLEAN :
             DomainAdmin_save(u, tid, CustomHost, is_verified)
    \/ \E path \in PathInputs, host \in HostInputs :
          TenantMiddleware_process_request(path, host)

MiddlewareSpec == Init /\ [][MiddlewareNext]_vars

\* ------------------------------------------------------------------ invoices
\* Decimal columns with two places are integers counting hundredths: money
\* in cents, quantity in hundredths of a unit, tax_rate in hundredths of a
\* percent.  Values computed in memory keep all their places: a product of
\* two such numbers counts 1/10^4, the tax amount and the total of
\* calculate_total count 1/10^6.

\* What the database keeps of x/unit in a column of two places: the nearest
\* hundredth, a tie going to the even one (the value is quantized by the
\* ORM) or away from zero (the value is rounded by the database server).
Quantize(x, unit, mode) ==
    LET q == x \div unit
        r == x % unit
    IN  IF 2 * r < unit THEN q
        ELSE IF 2 * r > unit THEN q + 1
        ELSE IF mode = "half_even" /\ q % 2 = 0 THEN q
        ELSE q + 1

RoundingModes == {"half_even", "half_up"}

\* InvoiceItem.save: amount = quantity * unit_price, then the row is written.
InvoiceItem_save(invoice, quantity, unit_price, mode) ==
    [invoice |-> invoice, quantity |-> quantity, unit_price |-> unit_price,
     amount |-> Quantize(quantity * unit_price, 100, mode)]

\* Invoice.calculate_total on an instance in memory (counting 1/10^6).
calculate_total(subtotal, tax_rate, discount_amount) ==
    LET tax_amount == subtotal * tax_rate
    IN  [tax_amount |-> tax_amount,
         total |-> subtotal * 10000 + tax_amount - discount_amount * 10000]

\* The loop of InvoiceViewSet.create over the submitted items (counting
\* 1/10^4).
RECURSIVE ItemsSubtotal(_)
ItemsSubtotal(items) ==
    IF items = << >> THEN 0
    ELSE Head(items).quantity * Head(items).unit_price + ItemsSubtotal(Tail(items))

\* The item lists and amounts a request carries.
Quantities == {100, 150}

UnitPrices == {1, 3}

ItemInputs == [quantity : Quantities, unit_price : UnitPrices]

ItemListInputs == { << >> } \cup { <<i>> : i \in ItemInputs }
                     \cup { <<i, j>> : i \in ItemInputs, j \in ItemInputs }

\* InvoiceViewSet.create (IsSuperAdmin): Invoice.objects.create is called
\* without a total, a column that is NOT NULL and has no default, so the
\* INSERT raises IntegrityError; nothing is written and neither
\* calculate_total nor the creation of the items is reached.
InvoiceViewSet_create(u, sid, tid, items) ==
    /\ IF ~is_super_admin(u)
       THEN last' = Response("InvoiceViewSet_create", 0, "none", 403, "Forbidden")
       ELSE IF sid \notin DOMAIN subscriptions \/ tid \notin DOMAIN tenants
       THEN last' = Response("InvoiceViewSet_create", 0, "none", 404, "NotFound")
       ELSE LET subtotal == ItemsSubtotal(items)
            IN  last' = Response("InvoiceViewSet_create", 0, "none", 500, "IntegrityError")
    /\ UNCHANGED << tenants, subscriptions, payments, teams, now, proc, invoicing, teamwork, sproc, routing, inviting, resetting >>

\* InvoiceAdmin (admin site, staff only): the invoice is saved with the
\* amounts typed into the form.
InvoiceAdmin_save(u, sid, tid, subtotal, tax_rate, tax_amount, discount_amount, total) ==
    /\ Len(invoices) < MaxInvoices
    /\ sid \in DOMAIN subscriptions
    /\ tid \in DOMAIN tenants
    /\ IF ~is_internal_admin(u)
       THEN /\ last' = Response("InvoiceAdmin_save", 0, "none", 302, "LoginRequired")
            /\ UNCHANGED invoices
       ELSE /\ invoices' = Append(invoices,
                               [tenant |-> tid, subscription |-> sid,
                                subtotal |-> subtotal, tax_rate |-> tax_rate,
                                tax_amount |-> tax_amount,
                                discount_amount |-> discount_amount, total |-> total])
            /\ last' = Response("InvoiceAdmin_save", Len(invoices) + 1, "none", 302, "none")
    /\ UNCHANGED << tenants, subscriptions, payments, teams, now, proc, invoice_items, teamwork, sproc, routing, inviting, resetting >>

\* InvoiceItemInline of InvoiceAdmin: each row of the inline is saved with
\* InvoiceItem.save.
InvoiceItemInline_save(u, invoice, quantity, unit_price) ==
    /\ Len(invoice_items) < MaxInvoiceItems
    /\ invoice \in DOMAIN invoices
    /\ IF ~is_internal_admin(u)
       THEN /\ last' = Response("InvoiceItemInline_save", 0, "none", 302, "LoginRequired")
            /\ UNCHANGED invoice_items
       ELSE /\ \E mode \in RoundingModes :
                  invoice_items' = Append(invoice_items,
                                          InvoiceItem_save(invoice, quantity, unit_price, mode))
            /\ last' = Response("InvoiceItemInline_save", Len(invoice_items) + 1, "none",
                                302, "none")
    /\ UNCHANGED << tenants, subscriptions, payments, teams, now, proc, invoices, teamwork, sproc, routing, inviting, resetting >>

InvoiceNext ==
    \/ /\ Len(tenants) < MaxTenants
       /\ \E name \in Names : TenantViewSet_create(name)
    \/ \E tid \in TenantIdInputs, plan \in PlanIds :
          SubscriptionViewSet_create("root", tid, plan)
    \/ \E u \in Users, sid \in SubscriptionIdInputs, tid \in TenantIdInputs,
          items \in ItemListInputs :
          InvoiceViewSet_create(u, sid, tid, items)
    \/ \E u \in Users, sid \in SubscriptionIdInputs, tid \in TenantIdInputs,
          subtotal \in UnitPrices, total \in UnitPrices :
          InvoiceAdmin_save(u, sid, tid, subtotal, 0, 0, 0, total)
    \/ \E u \in Users, invoice \in 1..MaxInvoices,
          quantity \in Quantities, unit_price \in UnitPrices :
          InvoiceItemInline_save(u, invoice, quantity, unit_price)

InvoiceSpec == Init /\ [][InvoiceNext]_vars

\* ------------------------------------------------------ tenant invitations
\* The id of the invitation that carries a token (the column is unique), 0
\* when there is none.
InvitationOf(token) ==
    IF \E i \in DOMAIN invitations : invitations[i].token = token
    THEN CHOOSE i \in DOMAIN invitations : invitations[i].token = token
    ELSE 0

\* TenantInvitationAdmin (admin site, staff only): an invitation is added.
\* token is unique, and so is the pair (tenant, email).
TenantInvitationAdmin_save(u, tid, email, role, token, expires_at, status) ==
    /\ tid \in DOMAIN tenants
    /\ IF ~is_internal_admin(u)
       THEN /\ last' = Response("TenantInvitationAdmin_save", 0, "none", 302, "LoginRequired")
            /\ UNCHANGED invitations
       ELSE IF \/ InvitationOf(token) # 0
               \/ \E i \in DOMAIN invitations :
                     invitations[i].tenant = tid /\ invitations[i].email = email
       THEN /\ last' = Response("TenantInvitationAdmin_save", 0, "none", 200, "ValidationError")
            /\ UNCHANGED invitations
       ELSE /\ invitations' = Append(invitations,
                 [tenant |-> tid, email |-> email, role |-> role, token |-> token,
                  status |-> status, expires_at |-> expires_at, accepted_at |-> None])
            /\ last' = Response("TenantInvitationAdmin_save", Len(invitations) + 1,
                                "none", 302, "none")
    /\ UNCHANGED << tenants, subscriptions, payments, teams, now, proc, invoicing,
                    teamwork, sproc, routing, accounts, resetting >>

\* TenantInvitationViewSet.accept with a lookup that ignores the status.
TenantInvitationViewSet_accept_any(token) ==
    LET i == InvitationOf(token)
    IN  /\ IF token = ""
           THEN /\ last' = Response("TenantInvitationViewSet_accept", 0, "none",
                                    400, "TokenRequired")
                /\ UNCHANGED inviting
           ELSE IF i = 0 \/ ~(invitations[i].expires_at > now)
           THEN /\ last' = Response("TenantInvitationViewSet_accept", i, "none",
                                    400, "InvalidOrExpired")
                /\ UNCHANGED inviting
           ELSE IF invitations[i].email \notin DOMAIN accounts
           THEN /\ last' = Response("TenantInvitationViewSet_accept", i, "none",
                                    200, "RegistrationNeeded")
                /\ UNCHANGED inviting
           ELSE /\ accounts' = [accounts EXCEPT ![invitations[i].email] =
                                   [tenant |-> Some(invitations[i].tenant),
                                    role |-> invitations[i].role]]
                /\ invitations' = [invitations EXCEPT ![i].status = "ACCEPTED",
                                                      ![i].accepted_at = Some(now)]
                /\ last' = Response("TenantInvitationViewSet_accept", i, "none",
                                    200, "none")
        /\ UNCHANGED << tenants, subscriptions, payments, teams, now, proc, invoicing,
                        teamwork, sproc, routing, resetting >>

\* TenantInvitationViewSet.accept (AllowAny): the invitation is looked up by
\* token, status PENDING and expires_at > now; an account with the invited
\* e-mail is moved to the tenant with the invited role and the invitation
\* becomes ACCEPTED; without such an account nothing is written.
TenantInvitationViewSet_accept(token) ==
    LET i == InvitationOf(token)
    IN  /\ IF token = ""
           THEN /\ last' = Response("TenantInvitationViewSet_accept", 0, "none",
                                    400, "TokenRequired")
                /\ UNCHANGED inviting
           ELSE IF \/ i = 0
                   \/ invitations[i].status # "PENDING"
                   \/ ~(invitations[i].expires_at > now)
           THEN /\ last' = Response("TenantInvitationViewSet_accept", i, "none",
                                    400, "InvalidOrExpired")
                /\ UNCHANGED inviting
           ELSE IF invitations[i].email \notin DOMAIN accounts
           THEN /\ last' = Response("TenantInvitationViewSet_accept", i, "none",
                                    200, "RegistrationNeeded")
                /\ UNCHANGED inviting
           ELSE /\ accounts' = [accounts EXCEPT ![invitations[i].email] =
                                   [tenant |-> Some(invitations[i].tenant),
                                    role |-> invitations[i].role]]
                /\ invitations' = [invitations EXCEPT ![i].status = "ACCEPTED",
                                                      ![i].accepted_at = Some(now)]
                /\ last' = Response("TenantInvitationViewSet_accept", i, "none",
                                    200, "none")
        /\ UNCHANGED << tenants, subscriptions, payments, teams, now, proc, invoicing,
                        teamwork, sproc, routing, resetting >>

InvitationNext ==
    \/ Tick
    \/ /\ Len(tenants) < MaxTenants
       /\ \E name \in Names : TenantViewSet_create(name)
    \/ /\ Len(invitations) < MaxInvitations
       /\ \E u \in Users, tid \in TenantIdInputs, email \in InviteEmails,
             role \in InvitationRoles, token \in Tokens, expires_at \in 1..(MaxTime + 1),
             status \in {"PENDING", "REJECTED"} :
             TenantInvitationAdmin_save(u, tid, email, role, token, expires_at, status)
    \/ \E token \in TokenInputs : TenantInvitationViewSet_accept(token)

InvitationSpec == Init /\ [][InvitationNext]_vars

\* ---------------------------------------------------------- password resets
\* request_password_reset: an account with the e-mail gets a new token (the
\* id of the row stands for the random token), good for ResetLifetime; the
\* answer is the same when no account has the e-mail.
request_password_reset(email) ==
    /\ IF email \in DOMAIN passwords
       THEN password_resets' = Append(password_resets,
               [user |-> email, expires_at |-> now + ResetLifetime, is_used |-> FALSE])
       ELSE UNCHANGED password_resets
    /\ last' = Response("request_password_reset", 0, "none", 200, "none")
    /\ UNCHANGED << tenants, subscriptions, payments, teams, now, proc, invoicing,
                    teamwork, sproc, routing, inviting, passwords, rproc >>

\* reset_password up to PasswordReset.objects.get: token 0 stands for a
\* missing token, new_password "" for a missing password.
reset_password_get(w, token, new_password) ==
    /\ rproc[w].pc = "idle"
    /\ IF token = 0 \/ new_password = ""
       THEN /\ last' = Response("reset_password", token, "none", 400, "Required")
            /\ UNCHANGED rproc
       ELSE IF \/ token \notin DOMAIN password_resets
               \/ password_resets[token].is_used
               \/ ~(password_resets[token].expires_at > now)
       THEN /\ last' = Response("reset_password", token, "none", 400, "InvalidOrExpired")
            /\ UNCHANGED rproc
       ELSE /\ rproc' = [rproc EXCEPT ![w] =
                            [pc |-> "password", id |-> token,
                             reset |-> password_resets[token],
                             new_password |-> new_password]]
            /\ UNCHANGED last
    /\ UNCHANGED << tenants, subscriptions, payments, teams, now, proc, invoicing,
                    teamwork, sproc, routing, inviting, password_resets, passwords >>

\* user.set_password(new_password); user.save().
reset_password_set(w) ==
    /\ rproc[w].pc = "password"
    /\ passwords' = [passwords EXCEPT ![rproc[w].reset.user] = rproc[w].new_password]
    /\ rproc' = [rproc EXCEPT ![w].pc = "used"]
    /\ UNCHANGED << tenants, subscriptions, payments, teams, now, last, proc, invoicing,
                    teamwork, sproc, routing, inviting, password_resets >>

\* reset.is_used = True; reset.save(); the answer.
reset_password_use(w) ==
    /\ rproc[w].pc = "used"
    /\ password_resets' = [password_resets EXCEPT ![rproc[w].id] =
                              [rproc[w].reset EXCEPT !.is_used = TRUE]]
    /\ last' = Response("reset_password", rproc[w].id, "none", 200, "none")
    /\ rproc' = [rproc EXCEPT ![w] = ResetIdle]
    /\ UNCHANGED << tenants, subscriptions, payments, teams, now, proc, invoicing,
                    teamwork, sproc, routing, inviting, passwords >>

ResetNext ==
    \/ Tick
    \/ /\ Len(password_resets) < MaxResets
       /\ \E email \in InviteEmails : request_password_reset(email)
    \/ \E w \in ResetWorkers, token \in 0..MaxResets, new_password \in (Passwords \ {"p0"}) \cup {""} :
          reset_password_get(w, token, new_password)
    \/ \E w \in ResetWorkers : reset_password_set(w)
    \/ \E w \in ResetWorkers : reset_password_use(w)

ResetSpec == Init /\ [][ResetNext]_vars

\* ------------------------------------- every path that makes a subscription
\* The subscription endpoints with every plan, next to the signup paths
\* (register endpoint, complete_signup, admin panel create_tenant).
SubscriptionNext ==
    \/ Tick
    \/ /\ Len(tenants) < MaxSignupTenants
       /\ \E name \in Names : TenantViewSet_create(name)
    \/ \E domain \in Names : complete_signup(domain)
    \/ /\ Len(tenants) < MaxSignupTenants
       /\ \E u \in Users, domain \in Names, auto_approve \in BOOLEAN :
             create_tenant(u, domain, auto_approve)
    \/ \E u \in Users, tid \in 0..MaxSignupTenants, plan \in DOMAIN Plans :
          SubscriptionViewSet_create(u, tid, plan)
    \/ \E u \in Users, sid \in SubscriptionIdInputs, immediately \in BOOLEAN :
          SubscriptionViewSet_cancel(u, sid, immediately)
    \/ \E u \in Users, sid \in SubscriptionIdInputs :
          SubscriptionViewSet_renew(u, sid)

SubscriptionSpec == Init /\ [][SubscriptionNext]_vars

\* ===================================================== payment verification
\* A request (not a clock tick) was just served.
Served == now' = now

\* The request just served asked to approve / to reject a payment and got
\* past authentication and the lookup of the payment.
ApproveAttempt ==
    /\ Served
    /\ last'.op \in {"approve_payment", "PaymentViewSet_verify"}
    /\ last'.action = "approve"
    /\ last'.code \notin {302, 403, 404}

RejectAttempt ==
    /\ Served
    /\ last'.op \in {"reject_payment", "PaymentViewSet_verify"}
    /\ last'.action = "reject"
    /\ last'.code \notin {302, 403, 404}

\* C1: after every successful payment approval, through either endpoint, the
\* payment is APPROVED/COMPLETED, its subscription is ACTIVE, a tenant that
\* was PENDING is ACTIVE and approved, and a tenant that was not PENDING
\* keeps its status.
C1_ApprovalCascades ==
    [][ (ApproveAttempt /\ last'.code = 200) =>
          LET p == payments'[last'.id]
              tid == p.tenant
          IN  /\ p.verification_status = "APPROVED"
              /\ p.status = "COMPLETED"
              /\ subscriptions'[p.subscription].status = "ACTIVE"
              /\ tenants[tid].status = "PENDING" =>
                    (tenants'[tid].status = "ACTIVE" /\ tenants'[tid].is_approved)
              /\ tenants[tid].status # "PENDING" =>
                    tenants'[tid].status = tenants[tid].status ]_vars

\* C2: once a payment is no longer verification-PENDING its row never changes
\* again, and every approve or reject attempt on it answers NotPending.
C2_VerifiedOnce ==
    [][ \A pid \in DOMAIN payments :
          payments[pid].verification_status # "PENDING" =>
             /\ payments'[pid].verification_status = payments[pid].verification_status
             /\ payments'[pid].status = payments[pid].status
             /\ payments'[pid].verified_by = payments[pid].verified_by
             /\ payments'[pid].verified_at = payments[pid].verified_at
             /\ ((ApproveAttempt \/ RejectAttempt) /\ last'.id = pid /\ last'.code # 500) =>
                   last'.err = "NotPending" ]_vars

\* C3: an approve call on a payment that an earlier approve call has already
\* approved answers NotPending and changes neither a tenant nor a
\* subscription.
C3_SecondApproveRefused ==
    [][ (/\ ApproveAttempt
         /\ last'.code # 500
         /\ payments[last'.id].verification_status = "APPROVED") =>
          /\ last'.err = "NotPending"
          /\ tenants' = tenants
          /\ subscriptions' = subscriptions ]_vars

\* C6: an approval of a PENDING payment that fails at one of its saves
\* leaves the payment, the tenants and the subscriptions as they were.
C6_CascadeAllOrNothing ==
    [][ (/\ ApproveAttempt
         /\ payments[last'.id].verification_status = "PENDING"
         /\ last'.code = 500
         /\ last'.err = "InternalError") =>
          /\ payments' = payments
          /\ tenants' = tenants
          /\ subscriptions' = subscriptions ]_vars

\* C7: a rejection of a PENDING payment with blank notes, through either
\* endpoint, answers MissingReason (unless a save raised) and leaves the
\* payment as it was; a rejection that succeeds leaves the payment
\* REJECTED/FAILED.
C7_RejectNeedsReason ==
    [][ /\ \A pid \in DOMAIN payments :
             (/\ payments[pid].verification_status = "PENDING"
              /\ \/ reject_payment("root", pid, "")
                 \/ PaymentViewSet_verify("root", pid, "reject", "")
              /\ last'.code # 500) =>
                (last'.err = "MissingReason" /\ payments' = payments)
        /\ (RejectAttempt /\ last'.code = 200) =>
              /\ payments'[last'.id].verification_status = "REJECTED"
              /\ payments'[last'.id].status = "FAILED" ]_vars

\* C8: a successful payment rejection, through either endpoint, leaves every
\* tenant row and every subscription row exactly as it was.
C8_RejectChangesOnlyPayment ==
    [][ (RejectAttempt /\ last'.code = 200) =>
          (tenants' = tenants /\ subscriptions' = subscriptions) ]_vars

\* A payment has just been rejected while its tenant is approved and its
\* subscription exists with a pending cancellation or a live status.
C8_Witness ==
    /\ last.op \in {"reject_payment", "PaymentViewSet_verify"}
    /\ last.action = "reject"
    /\ last.code = 200
    /\ payments[last.id].verification_status = "REJECTED"
    /\ payments[last.id].verified_by # None
    /\ tenants[payments[last.id].tenant].is_approved
    /\ subscriptions[payments[last.id].subscription].status = "TRIAL"

\* ========================================================= tenant lifecycle
\* C9: in every state and for every tenant, status = ACTIVE exactly when
\* is_approved.
C9_ActiveIffApproved ==
    \A tid \in DOMAIN tenants :
       (tenants[tid].status = "ACTIVE") <=> tenants[tid].is_approved

\* The request just served approved a tenant: one of the two approve
\* endpoints on tenant tid, or a payment approval whose tenant tid was PENDING.
TenantApproved(tid) ==
    /\ Served
    /\ last'.code = 200
    /\ \/ last'.op \in {"TenantViewSet_approve", "approve_tenant"} /\ last'.id = tid
       \/ /\ last'.op = "approve_payment"
          /\ payments'[last'.id].tenant = tid
          /\ tenants[tid].status = "PENDING"

\* C10: right after a successful tenant approval (Tenant.approve, the
\* approve_tenant endpoint, the payment-approval cascade) the tenant is
\* approved and ACTIVE, and no state has an approved tenant that is PENDING.
C10_ApprovedIsActive ==
    /\ [](\A tid \in DOMAIN tenants :
             tenants[tid].is_approved => tenants[tid].status # "PENDING")
    /\ [][ \A tid \in DOMAIN tenants :
             TenantApproved(tid) =>
                (tenants'[tid].is_approved /\ tenants'[tid].status = "ACTIVE") ]_vars

\* The payment-approval cascade has just approved the payment's tenant.
C10_Witness ==
    /\ last.op = "approve_payment"
    /\ last.code = 200
    /\ LET p == payments[last.id]
           t == tenants[p.tenant]
       IN  /\ t.is_approved
           /\ t.status = "ACTIVE"
           /\ t.approved_by = p.verified_by
           /\ t.approved_at = p.verified_at

\* ====================================================== requests in flight
\* Worker w has finished an approve_payment / a reject_payment request on
\* payment pid that got past authentication and the lookup.
Finished(w, op, pid) ==
    /\ proc[w].pc = "done"
    /\ proc[w].op = op
    /\ proc[w].pid = pid
    /\ proc[w].code \notin {302, 404}

\* Worker w has written payment pid.
HasSavedPayment(w, pid) ==
    /\ proc[w].pid = pid
    /\ proc[w].payment # None
    /\ proc[w].pc \notin {"idle", "save_payment"}

\* C4: of two approve requests on the same payment exactly one succeeds and
\* the other one answers NotPending.
C4_OneApproveWins ==
    \A w1, w2 \in Workers, pid \in DOMAIN payments :
       (w1 # w2 /\ Finished(w1, "approve_payment", pid)
                /\ Finished(w2, "approve_payment", pid)) =>
          \/ proc[w1].code = 200 /\ proc[w2].err = "NotPending"
          \/ proc[w2].code = 200 /\ proc[w1].err = "NotPending"

\* C5: of an approve and a reject request on the same payment at most one
\* writes the payment, and the payment is never REJECTED/FAILED while an
\* approve request on it has succeeded.
C5_ApproveRejectExclusive ==
    \A wa, wr \in Workers, pid \in DOMAIN payments :
       (proc[wa].op = "approve_payment" /\ proc[wr].op = "reject_payment") =>
          /\ ~(HasSavedPayment(wa, pid) /\ HasSavedPayment(wr, pid))
          /\ ~(/\ payments[pid].verification_status = "REJECTED"
               /\ payments[pid].status = "FAILED"
               /\ Finished(wa, "approve_payment", pid)
               /\ proc[wa].code = 200)

\* ============================================= tenant lifecycle transitions
\* The request just served was op on tenant tid and got past authentication
\* and the lookup of the tenant.
TenantRequest(op, tid) ==
    /\ Served
    /\ last'.op = op
    /\ last'.id = tid
    /\ last'.code \notin {302, 403, 404}

\* C11: a tenant whose status is CANCELLED keeps that status in every step.
C11_CancelledIsTerminal ==
    [][ \A tid \in DOMAIN tenants :
          tenants[tid].status = "CANCELLED" => tenants'[tid].status = "CANCELLED" ]_vars

\* C12: a suspend request (with a reason) on a PENDING tenant answers
\* InvalidTransition and leaves the tenant as it was; a suspend request that
\* succeeds was made on an ACTIVE tenant, leaves it SUSPENDED and appends the
\* reason to its notes.
C12_SuspendOnlyFromActive ==
    [][ \A tid \in DOMAIN tenants :
          /\ (/\ tenants[tid].status = "PENDING"
              /\ \E reason \in NoteTexts \ {""} :
                    TenantViewSet_suspend("root", tid, reason)) =>
                (last'.err = "InvalidTransition" /\ tenants' = tenants)
          /\ (TenantRequest("TenantViewSet_suspend", tid) /\ last'.code = 200) =>
                /\ tenants[tid].status = "ACTIVE"
                /\ tenants'[tid].status = "SUSPENDED"
                /\ Len(tenants'[tid].notes) = Len(tenants[tid].notes) + 1 ]_vars

\* C13: toggle_tenant_status turns ACTIVE into SUSPENDED and SUSPENDED into
\* ACTIVE, changing nothing else; on a PENDING or CANCELLED tenant it answers
\* InvalidTransition and changes nothing; toggling twice gives the status
\* back.
C13_ToggleFlipsStrictly ==
    [][ \A tid \in DOMAIN tenants :
          TenantRequest("toggle_tenant_status", tid) =>
             LET flip(st) == IF st = "ACTIVE" THEN "SUSPENDED" ELSE "ACTIVE"
                 t == tenants[tid]
             IN  IF t.status \in {"ACTIVE", "SUSPENDED"}
                 THEN /\ last'.code = 200
                      /\ tenants' = [tenants EXCEPT ![tid].status = flip(t.status)]
                      /\ flip(tenants'[tid].status) = t.status
                 ELSE /\ last'.err = "InvalidTransition"
                      /\ tenants' = tenants ]_vars

\* A tenant that was suspended with a reason has just been toggled back to
\* ACTIVE.
C13_Witness ==
    /\ last.op = "toggle_tenant_status"
    /\ last.code = 200
    /\ tenants[last.id].status = "ACTIVE"
    /\ tenants[last.id].is_approved
    /\ tenants[last.id].notes # << >>

\* C14: an approve request on a tenant that is already approved answers
\* without error and changes none of status, is_approved, approved_at,
\* approved_by.
C14_ApproveIdempotent ==
    [][ \A tid \in DOMAIN tenants :
          (/\ tenants[tid].is_approved
           /\ last'.code # 500
           /\ \/ TenantRequest("TenantViewSet_approve", tid)
              \/ TenantRequest("approve_tenant", tid)) =>
             /\ last'.code = 200
             /\ tenants'[tid].status = tenants[tid].status
             /\ tenants'[tid].is_approved = tenants[tid].is_approved
             /\ tenants'[tid].approved_at = tenants[tid].approved_at
             /\ tenants'[tid].approved_by = tenants[tid].approved_by ]_vars

\* ================================================================= signup
\* C15: after a signup request (TenantViewSet.create or complete_signup),
\* whether it succeeded or failed, either nothing was created, or a tenant
\* (PENDING, not approved) was created together with a TRIAL subscription and
\* a PENDING payment of that tenant.
C15_SignupAtomic ==
    [][ (Served /\ last'.op \in {"TenantViewSet_create", "complete_signup"}) =>
          \/ /\ tenants' = tenants
             /\ subscriptions' = subscriptions
             /\ payments' = payments
          \/ /\ Len(tenants') = Len(tenants) + 1
             /\ LET tid == Len(tenants')
                IN  /\ tenants'[tid].status = "PENDING"
                    /\ ~tenants'[tid].is_approved
                    /\ \E sid \in DOMAIN subscriptions' \ DOMAIN subscriptions :
                          /\ subscriptions'[sid].tenant = tid
                          /\ subscriptions'[sid].status = "TRIAL"
                    /\ \E pid \in DOMAIN payments' \ DOMAIN payments :
                          /\ payments'[pid].tenant = tid
                          /\ payments'[pid].status = "PENDING"
                          /\ payments'[pid].verification_status = "PENDING" ]_vars

\* C16: a tenant-creation request for a slug that is already registered
\* answers with a duplicate-slug error (the "already taken" answer, or the
\* unique constraint's error) and creates nothing; every tenant a request
\* creates starts PENDING and not approved; no two tenants share a slug.
C16_DuplicateSlugRefused ==
    /\ [](\A i, j \in DOMAIN tenants : tenants[i].slug = tenants[j].slug => i = j)
    /\ [][ /\ \A name \in Names :
                (/\ \E i \in DOMAIN tenants : tenants[i].slug = <<name, 0>>
                 /\ \/ TenantViewSet_create(name)
                    \/ complete_signup(name)
                    \/ \E u \in {"root", "staff"}, auto_approve \in BOOLEAN :
                          create_tenant(u, name, auto_approve)) =>
                   /\ last'.err \in {"DomainTaken", "IntegrityError"}
                   /\ tenants' = tenants
            /\ \A tid \in DOMAIN tenants' \ DOMAIN tenants :
                  tenants'[tid].status = "PENDING" /\ ~tenants'[tid].is_approved ]_vars

C18_SuperAdminBypassesLimits ==
    [][ \A u \in TeamUsers, name \in Names, host \in 0..MaxTenants :
          (is_super_admin(u) /\ TeamViewSet_create(u, name, host)) =>
             last'.err # "LimitExceeded" ]_vars

\* ============================================================ activity log
\* C19: when the write of the activity log entry fails during a business
\* operation, the operation still answers with success and its changes stay:
\* no request is answered with the error of the failed log write, and an
\* approve request of a super-admin on a tenant it can see answers 200 and
\* leaves the tenant approved.
C19_LogFailureSwallowed ==
    [][ /\ last'.op \in {"TenantViewSet_approve", "TenantViewSet_suspend",
                        "TenantViewSet_activate", "PaymentViewSet_verify",
                        "TeamViewSet_create"} => last'.err # "LogFailed"
        /\ \A tid \in DOMAIN tenants, notes \in NoteTexts :
              TenantViewSet_approve("root", tid, notes) =>
                 (last'.code = 200 /\ tenants'[tid].is_approved) ]_vars

C21_RenewForcesActive ==
    [][ \A u \in Users, sid \in DOMAIN subscriptions :
          (SubscriptionViewSet_renew(u, sid) /\ last'.code # 404) =>
             /\ subscriptions'[sid].status = "ACTIVE"
             /\ subscriptions'[sid].current_period_start = now
             /\ subscriptions'[sid].cancel_at_period_end =
                   subscriptions[sid].cancel_at_period_end
             /\ subscriptions'[sid].cancelled_at = subscriptions[sid].cancelled_at
             /\ \A o \in DOMAIN subscriptions \ {sid} :
                   subscriptions'[o] = subscriptions[o] ]_vars

\* A renewed subscription that is ACTIVE with its cancellation still pending.
C21_Witness ==
    /\ last.op = "SubscriptionViewSet_renew"
    /\ last.code = 200
    /\ subscriptions[last.id].status = "ACTIVE"
    /\ subscriptions[last.id].current_period_start = 1
    /\ subscriptions[last.id].cancel_at_period_end
    /\ subscriptions[last.id].cancelled_at # None

\* ================================================================ invoices
\* C22: every saved invoice item has amount = quantity * unit_price; the
\* amounts calculate_total gives are tax_amount = subtotal * tax_rate / 100
\* and total = subtotal + tax_amount - discount_amount; and a create request
\* of a super-admin for a subscription and a tenant that exist creates an
\* invoice whose subtotal is the sum of quantity * unit_price over the items
\* submitted.
C22_InvoiceArithmetic ==
    /\ [](\A i \in DOMAIN invoice_items :
            invoice_items[i].amount * 100 =
               invoice_items[i].quantity * invoice_items[i].unit_price)
    /\ [](\A subtotal \in UnitPrices, tax_rate \in {0, 1850}, discount_amount \in {0, 1} :
            LET c == calculate_total(subtotal, tax_rate, discount_amount)
            IN  /\ c.tax_amount = subtotal * tax_rate
                /\ c.total = subtotal * 10000 + c.tax_amount - discount_amount * 10000)
    /\ [][ \A sid \in DOMAIN subscriptions, tid \in DOMAIN tenants,
             items \in ItemListInputs :
             InvoiceViewSet_create("root", sid, tid, items) =>
                /\ last'.code = 201
                /\ Len(invoices') = Len(invoices) + 1
                /\ invoices'[Len(invoices')].subtotal * 100 = ItemsSubtotal(items) ]_vars

\* ============================================== team requests served at once
\* The teams of a tenant that exist.
LiveTeams(tid) ==
    {i \in DOMAIN teams \ deleted_teams : teams[i].tenant = tid}

\* C23: whenever no team request is in flight, each tenant's
\* current_teams_count is the number of its teams that exist.
C23_NoLostCounterUpdate ==
    [](( \A w \in TeamWorkers : tproc[w].pc = "idle" ) =>
          \A tid \in DOMAIN tenants :
             tenants[tid].current_teams_count = Cardinality(LiveTeams(tid)))

\* C24: at every moment, the teams of a tenant that were created by accounts
\* other than super-admins are at most max_teams.
C24_CeilingNeverExceeded ==
    [](\A tid \in DOMAIN tenants :
          Cardinality({i \in LiveTeams(tid) : ~is_super_admin(teams[i].owner)})
             <= tenants[tid].max_teams)

\* ====================================== subscription requests served at once
\* C25: whenever no subscription request is in flight, each tenant that has
\* subscriptions refers to the one of them that was created last.
C25_BackReferenceIsLatest ==
    [](( \A w \in SubscriptionWorkers : sproc[w].pc = "idle" ) =>
          \A tid \in DOMAIN tenants :
             LET own == {i \in DOMAIN subscriptions : subscriptions[i].tenant = tid}
             IN  own # {} =>
                   /\ tenants[tid].subscription # None
                   /\ \A i \in own : i <= tenants[tid].subscription[1])

\* ======================================================= tenant by host name
\* C26: the tenant TenantMiddleware leaves in request.tenant is null or a
\* tenant that is ACTIVE at that moment, whether it was found by a verified
\* Domain row or by its slug, and it is null for the excluded path prefixes.
C26_ResolvedTenantIsActive ==
    [][ \A path \in PathInputs, host \in HostInputs :
          TenantMiddleware_process_request(path, host) =>
             /\ request'.tenant # None =>
                   /\ request'.tenant[1] \in DOMAIN tenants
                   /\ tenants[request'.tenant[1]].status = "ACTIVE"
             /\ (\/ StartsWith(path, <<"django-admin">>)
                 \/ StartsWith(path, <<"api", "auth">>)
                 \/ StartsWith(path, <<"admin", "login">>)) =>
                   request'.tenant = None ]_vars

\* A request to a verified domain of a tenant that is approved but no longer
\* ACTIVE was given no tenant.
C26_Witness ==
    /\ request.path = <<"api", "teams">>
    /\ request.tenant = None
    /\ \E d \in domains :
          /\ d.domain = request.host
          /\ d.is_verified
          /\ tenants[d.tenant].is_approved
          /\ tenants[d.tenant].status = "SUSPENDED"

\* ============================================================ approval gate
\* C27: a team-creation request of an account that is not a super-admin
\* creates a team only when the account's tenant is approved and ACTIVE; for
\* a tenant that is PENDING, SUSPENDED or CANCELLED the request is refused
\* and nothing is created.
C27_TeamsOnlyForActiveTenants ==
    [][ \A u \in TeamUsers, name \in Names, host \in 0..MaxTenants :
          (~is_super_admin(u) /\ TeamViewSet_create(u, name, host)) =>
             IF /\ user_tenant(u) # None
                /\ tenants[user_tenant(u)[1]].is_approved
                /\ tenants[user_tenant(u)[1]].status = "ACTIVE"
             THEN TRUE
             ELSE /\ last'.code \in {302, 403}
                  /\ teams' = teams
                  /\ team_members' = team_members
                  /\ tenants' = tenants ]_vars

C29_InvitationAcceptedOnce ==
    /\ [][ (Served /\ last'.op = "TenantInvitationViewSet_accept") =>
             LET i == last'.id
             IN  /\ last'.code = 200 =>
                       /\ i \in DOMAIN invitations
                       /\ invitations[i].status = "PENDING"
                       /\ invitations[i].expires_at > now
                 /\ (last'.code = 200 /\ last'.err = "none") =>
                       /\ invitations[i].email \in DOMAIN accounts
                       /\ accounts' = [accounts EXCEPT ![invitations[i].email] =
                                         [tenant |-> Some(invitations[i].tenant),
                                          role |-> invitations[i].role]]
                       /\ invitations'[i].status = "ACCEPTED"
                       /\ \A j \in DOMAIN invitations \ {i} :
                             invitations'[j] = invitations[j]
                 /\ (last'.code = 200 /\ last'.err # "none") =>
                       /\ invitations[i].email \notin DOMAIN accounts
                       /\ UNCHANGED inviting
                 /\ last'.code # 200 => UNCHANGED inviting
                 /\ (i \in DOMAIN invitations /\ invitations[i].status = "ACCEPTED") =>
                       last'.code = 400 ]_vars
    /\ [][ \A i \in DOMAIN invitations :
             invitations[i].status = "ACCEPTED" =>
                invitations'[i].status = "ACCEPTED" ]_vars

\* An invitation was accepted by its account, and a further accept with the
\* same token has just been refused.
C29_Witness ==
    /\ last.op = "TenantInvitationViewSet_accept"
    /\ last.code = 400
    /\ last.id \in DOMAIN invitations
    /\ invitations[last.id].status = "ACCEPTED"
    /\ invitations[last.id].expires_at > now
    /\ accounts[invitations[last.id].email].tenant = Some(invitations[last.id].tenant)

\* C30: each password-reset token changes a password at most once.  A
\* request writes a password only with a token that is unused and unexpired
\* and that no other request, earlier or in flight, has written a password
\* with; the request that wrote marks the token used.
C30_ResetTokenUsedOnce ==
    [][ \A w \in ResetWorkers :
          (rproc[w].pc = "password" /\ rproc'[w].pc = "used") =>
             /\ ~password_resets[rproc[w].id].is_used
             /\ \A v \in ResetWorkers \ {w} :
                   ~(rproc[v].pc = "used" /\ rproc[v].id = rproc[w].id) ]_vars

====
